---- MODULE Spec2Model ----
(***************************************************************************)
(* Model of the NodeSet service manager of the Hyperdrive daemon           *)
(* (common/nodeset-manager.go): the session token and the cached           *)
(* registration status, the login protocol, the request retry wrapper and  *)
(* the public, mutex-guarded operations built on them.                     *)
(*                                                                         *)
(* Every public method locks the manager's mutex on entry and unlocks it   *)
(* (deferred) on return.  A method is modelled as a sequence of steps, one *)
(* per blocking remote call: the step that acquires the lock runs the      *)
(* local code up to the first request sent, each following step consumes   *)
(* the answer of the request in flight and runs up to the next one.  The   *)
(* position "ret" is the return statement: the results are computed and    *)
(* the deferred Unlock has not run yet.                                    *)
(*                                                                         *)
(* The wallet and the NodeSet service are the environment.  The service    *)
(* keeps honest state (whitelist, registration, logged-in session) and     *)
(* every request may also fail in transport.                               *)
(***************************************************************************)
EXTENDS Integers, Sequences, FiniteSets, TLC

\* ---------------------------------------------------------------- bounds
NumCallers == 2
MaxTokens == 3

Procs == 1 .. NumCallers

\* ------------------------------------------------------------- constants
\* api.NodeSetRegistrationStatus
Unknown == "Unknown"
NoWallet == "NoWallet"
Unregistered == "Unregistered"
Registered == "Registered"
NodeSetRegistrationStatus == {Unknown, NoWallet, Unregistered, Registered}

\* RegistrationResult
RegistrationResult_Unknown == "RegistrationResult_Unknown"
RegistrationResult_Success == "RegistrationResult_Success"
RegistrationResult_AlreadyRegistered == "RegistrationResult_AlreadyRegistered"
RegistrationResult_NotWhitelisted == "RegistrationResult_NotWhitelisted"

\* Error classes, as told apart by errors.Is; wrapping with %w keeps the class.
Nil == "nil"
ErrInvalidSession == "ErrInvalidSession"
ErrWalletNotLoaded == "ErrWalletNotLoaded"
ErrUnregisteredNode == "ErrUnregisteredNode"
ErrAlreadyRegistered == "ErrAlreadyRegistered"
ErrNotWhitelisted == "ErrNotWhitelisted"
ErrBusiness == "ErrBusiness"          \* a recognised remote error code of a domain endpoint
ErrTransport == "ErrTransport"        \* any other failure of a request (transport, cancellation, 5xx)
ErrWalletStatus == "ErrWalletStatus"  \* wallet.GetStatus() failed
ErrWalletNotInitialized == "ErrWalletNotInitialized"  \* "hyperdrive wallet not initialized yet"
ErrRegisterNoWallet == "ErrRegisterNoWallet"          \* "can't register node ..., wallet not loaded"
Panicked == "Panicked"                                \* panic("context didn't have a logger!")
None == "none"                        \* no value: the step did not happen

\* Session tokens: the empty string, the token of a nonce response, the token of a login response
NoToken == [kind |-> "none", id |-> 0]
NonceToken(n) == [kind |-> "prov", id |-> n]
LoginToken(n) == [kind |-> "sess", id |-> n]

\* The public operations of the manager
OpGetRegistrationStatus == "GetRegistrationStatus"
OpLogin == "Login"
OpRegisterNode == "RegisterNode"
OpStakeWise_GetVaults == "StakeWise_GetVaults"
Ops == {OpGetRegistrationStatus, OpLogin, OpRegisterNode, OpStakeWise_GetVaults}
OpStakeWise_GetValidatorManagerSignature == "StakeWise_GetValidatorManagerSignature"

\* ---------------------------------------------------------------- wallet
\* wallet.WalletStatus, reduced to the fields the daemon reads; AddrMatch is
\* Wallet.WalletAddress == Address.NodeAddress.
WalletStatus(hasAddress, isLoaded, isOnDisk, isPasswordSaved, addrMatch) ==
    [HasAddress |-> hasAddress, IsLoaded |-> isLoaded, IsOnDisk |-> isOnDisk,
     IsPasswordSaved |-> isPasswordSaved, AddrMatch |-> addrMatch]

WalletNone == WalletStatus(FALSE, FALSE, FALSE, FALSE, TRUE)
WalletNeedPassword == WalletStatus(TRUE, FALSE, TRUE, FALSE, FALSE)
WalletLoadFailure == WalletStatus(TRUE, FALSE, TRUE, TRUE, FALSE)
WalletAddressOnly == WalletStatus(TRUE, FALSE, FALSE, FALSE, FALSE)
WalletMismatch == WalletStatus(TRUE, TRUE, TRUE, TRUE, FALSE)
WalletReady == WalletStatus(TRUE, TRUE, TRUE, TRUE, TRUE)

\* The wallet statuses the environment moves between
WalletStatuses ==
    {WalletNone, WalletNeedPassword, WalletLoadFailure, WalletAddressOnly, WalletMismatch, WalletReady}

ErrNodeAddressNotSet == "ErrNodeAddressNotSet"
ErrNeedPassword == "ErrNeedPassword"
ErrWalletLoadFailure == "ErrWalletLoadFailure"
ErrNoWallet == "ErrNoWallet"
ErrWalletMismatch == "ErrWalletMismatch"

CheckIfWalletReady(status) ==
    IF ~status.HasAddress THEN ErrNodeAddressNotSet
    ELSE IF ~status.IsLoaded THEN
        IF status.IsOnDisk THEN
            IF ~status.IsPasswordSaved THEN ErrNeedPassword ELSE ErrWalletLoadFailure
        ELSE ErrNoWallet
    ELSE IF ~status.AddrMatch THEN ErrWalletMismatch
    ELSE Nil

\* ----------------------------------------------------------------- state
VARIABLES
    sessionToken,            \* m.sessionToken (and the token the v3 client attaches)
    nodeRegistrationStatus,  \* m.nodeRegistrationStatus
    lock,                    \* m.lock: 0 when free, else the caller holding it
    wallet,                  \* what m.wallet.GetStatus() reports
    remoteWhitelisted,       \* the service has whitelisted the node address
    remoteRegistered,        \* the service has the node address registered
    remoteSession,           \* id of the session the service accepts as logged in, 0 if none
    nextToken,               \* id of the next session the service issues
    pc,                      \* position of each caller
    op,                      \* operation each caller is in
    call,                    \* locals and history of each caller's invocation
    everRegistered,          \* history: some RegisterNode has returned Success
    walletEverLoaded,        \* history: the wallet has been loaded at some time
    api,                     \* the API request each caller is serving, if any
    waiter,                  \* the WaitForNodeSetRegistration loop each caller is in, if any
    cfg,                     \* the HyperdriveConfig: Modules, Version, hyperdriveUserDirectory
    lastCall,                \* the last call of a method or helper of the configuration: arguments and return
    ready                    \* the last check of the wallet by the daemon and by a module: status read, error returned

vars == <<sessionToken, nodeRegistrationStatus, lock, wallet, remoteWhitelisted,
          remoteRegistered, remoteSession, nextToken, pc, op, call, everRegistered, walletEverLoaded,
          api, waiter, cfg, lastCall, ready>>

mgrVars == <<sessionToken, nodeRegistrationStatus>>
daemonVars == <<api, waiter, cfg, lastCall, ready>>
remoteVars == <<remoteWhitelisted, remoteRegistered, remoteSession, nextToken>>

\* Locals of one invocation, with the history the properties read
EmptyCall ==
    [entryStatus |-> None,   \* cached status when the lock was acquired
     entryToken |-> NoToken, \* session token when the lock was acquired
     reqs |-> 0,             \* executions of the business request
     nonces |-> 0,           \* nonce requests sent
     logins |-> 0,           \* login requests sent
     loginRuns |-> 0,        \* runs of loginImpl
     registers |-> 0,        \* node-address requests sent
     nonce |-> 0,            \* nonceData of the running login
     firstErr |-> None,      \* outcome of the first execution of the request
     secondErr |-> None,     \* outcome of the retry
     firstToken |-> NoToken, \* token attached to the first execution
     secondToken |-> NoToken,\* token attached to the retry
     nonceErr |-> None,      \* outcome of the nonce request
     loginReqErr |-> None,   \* outcome of Core.Login
     loginErr |-> None,      \* what loginImpl returned
     registerErr |-> None,   \* outcome of Core.NodeAddress
     depositData |-> 0,      \* len(depositData) of StakeWise_GetValidatorManagerSignature
     encryptedExitMessages |-> 0,    \* len(encryptedExitMessages)
     ret |-> None,           \* returned value
     err |-> None]           \* returned error

\* An API request on its way through PrepareData, with the response it builds
NoRequest ==
    [handler |-> None,          \* the route
     stage |-> "none",          \* the manager call PrepareData is in, or "done"
     returned |-> FALSE,        \* that call has returned
     ret |-> None,              \* what the call returned
     err |-> None,
     requireWalletReady |-> None,           \* what sp.RequireWalletReady() returned
     requireRegisteredWithNodeSet |-> None, \* what sp.RequireRegisteredWithNodeSet(ctx) returned
     statusCalls |-> 0,         \* calls of ns.GetRegistrationStatus
     businessCalls |-> 0,       \* calls of the business operation of the manager
     businessErr |-> None,      \* error the business operation returned
     responseStatus |-> None,   \* types.ResponseStatus returned
     responseErr |-> None,      \* error returned
     flags |-> {},              \* boolean fields of data set to true
     payload |-> FALSE,         \* data.Signature / data.Vaults / data.Active... assigned
     Status |-> None,           \* data.Status
     ErrorMessage |-> ""]       \* data.ErrorMessage

\* A caller's run of WaitForNodeSetRegistration
NoWait ==
    [stage |-> "none",      \* "status": in ns.GetRegistrationStatus; "sleep": in SleepWithCancel; "done": returned
     ctxDone |-> FALSE,     \* ctx has been cancelled
     calls |-> 0,           \* calls of ns.GetRegistrationStatus begun in the current iteration
     repeated |-> FALSE,    \* SleepWithCancel has returned false: this is a later iteration
     status |-> None,       \* what the last call returned
     err |-> None,
     msg |-> "",            \* the message logged in this iteration
     nilError |-> FALSE,    \* err.Error() has been called on a nil error
     sawRegistered |-> FALSE,   \* some call returned Registered
     sawCancel |-> FALSE,   \* SleepWithCancel has returned true
     ret |-> FALSE]         \* the value returned

\* A map[string]any of module configurations: a value for each module name,
\* Absent for a name that is not a key of the map
Absent == "absent"
ModuleNames == {"stakewise", "constellation"}
ModuleConfigs == {"settings a", "settings b"}
ModulesMaps == [ModuleNames -> ModuleConfigs \cup {Absent}]
EmptyModules == [n \in ModuleNames |-> Absent]

\* NewHyperdriveConfig: a configuration with no module
NewHyperdriveConfig ==
    [Modules |-> EmptyModules, Version |-> "", hyperdriveUserDirectory |-> "/home/user/.hyperdrive"]

\* No method of the configuration has been called yet
NoCall == [fn |-> None, args |-> None, before |-> None, ret |-> None, err |-> None]

\* The wallet has not been checked yet
NotChecked == [read |-> FALSE, status |-> WalletNone, err |-> None]
NoChecks ==
    [requireWalletReady |-> NotChecked,   \* serviceProvider.RequireWalletReady
     checkIfWalletReady |-> NotChecked]   \* moduleServiceProvider.RequireWalletReady

TypeOK ==
    /\ sessionToken \in [kind : {"none", "prov", "sess"}, id : 0 .. MaxTokens]
    /\ nodeRegistrationStatus \in NodeSetRegistrationStatus
    /\ lock \in Procs \cup {0}
    /\ wallet \in WalletStatuses
    /\ remoteWhitelisted \in BOOLEAN
    /\ remoteRegistered \in BOOLEAN
    /\ remoteSession \in 0 .. MaxTokens
    /\ nextToken \in 1 .. MaxTokens + 1
    /\ pc \in [Procs -> {"idle", "wait", "nonce", "login", "req1", "req2", "register", "ret"}]
    /\ op \in [Procs -> Ops \cup {OpStakeWise_GetValidatorManagerSignature, None}]
    /\ everRegistered \in BOOLEAN
    /\ walletEverLoaded \in BOOLEAN

\* NewNodeSetServiceManager: status Unknown, empty token, free lock
Init ==
    /\ sessionToken = NoToken
    /\ nodeRegistrationStatus = Unknown
    /\ lock = 0
    /\ wallet = WalletNone
    /\ remoteWhitelisted = FALSE
    /\ remoteRegistered = FALSE
    /\ remoteSession = 0
    /\ nextToken = 1
    /\ pc = [p \in Procs |-> "idle"]
    /\ op = [p \in Procs |-> None]
    /\ call = [p \in Procs |-> EmptyCall]
    /\ everRegistered = FALSE
    /\ walletEverLoaded = FALSE
    /\ api = [p \in Procs |-> NoRequest]
    /\ waiter = [p \in Procs |-> NoWait]
    /\ cfg = NewHyperdriveConfig
    /\ lastCall = NoCall
    /\ ready = NoChecks

\* ------------------------------------------------------- internal methods
\* setRegistrationStatus without the guard that keeps a known status
setRegistrationStatus_Overwrite(current, status) == status

\* setRegistrationStatus: the status the cache holds after the call
setRegistrationStatus(current, status) ==
    IF status = Unknown /\ (current = Unregistered \/ current = Registered)
    THEN current
    ELSE status

\* LoginReturn whose runRequest re-runs the request whatever the login returned
LoginReturn_AlwaysRetry(p, c, lerr, st, tok) ==
    /\ nodeRegistrationStatus' = st
    /\ sessionToken' = tok
    /\ LET c1 == [c EXCEPT !.loginErr = lerr] IN
       IF op[p] = OpGetRegistrationStatus THEN
           /\ call' = [call EXCEPT ![p] = [c1 EXCEPT !.ret = st, !.err = lerr]]
           /\ pc' = [pc EXCEPT ![p] = "ret"]
       ELSE IF op[p] = OpLogin THEN
           /\ call' = [call EXCEPT ![p] = [c1 EXCEPT !.err = lerr]]
           /\ pc' = [pc EXCEPT ![p] = "ret"]
       ELSE
           /\ call' = [call EXCEPT ![p] = [c1 EXCEPT !.reqs = @ + 1, !.secondToken = tok]]
           /\ pc' = [pc EXCEPT ![p] = "req2"]

\* LoginReturn whose runRequest returns the error of the request when the login fails
LoginReturn_KeepRequestErr(p, c, lerr, st, tok) ==
    /\ nodeRegistrationStatus' = st
    /\ sessionToken' = tok
    /\ LET c1 == [c EXCEPT !.loginErr = lerr] IN
       IF op[p] = OpGetRegistrationStatus THEN
           /\ call' = [call EXCEPT ![p] = [c1 EXCEPT !.ret = st, !.err = lerr]]
           /\ pc' = [pc EXCEPT ![p] = "ret"]
       ELSE IF op[p] = OpLogin THEN
           /\ call' = [call EXCEPT ![p] = [c1 EXCEPT !.err = lerr]]
           /\ pc' = [pc EXCEPT ![p] = "ret"]
       ELSE
           IF lerr # Nil THEN
               /\ call' = [call EXCEPT ![p] = [c1 EXCEPT !.err = c1.firstErr]]
               /\ pc' = [pc EXCEPT ![p] = "ret"]
           ELSE
               /\ call' = [call EXCEPT ![p] = [c1 EXCEPT !.reqs = @ + 1, !.secondToken = tok]]
               /\ pc' = [pc EXCEPT ![p] = "req2"]

\* LoginReturn whose GetRegistrationStatus returns the status read before the login
LoginReturn_StaleStatus(p, c, lerr, st, tok) ==
    /\ nodeRegistrationStatus' = st
    /\ sessionToken' = tok
    /\ LET c1 == [c EXCEPT !.loginErr = lerr] IN
       IF op[p] = OpGetRegistrationStatus THEN
           /\ call' = [call EXCEPT ![p] = [c1 EXCEPT !.ret = c1.entryStatus, !.err = lerr]]
           /\ pc' = [pc EXCEPT ![p] = "ret"]
       ELSE IF op[p] = OpLogin THEN
           /\ call' = [call EXCEPT ![p] = [c1 EXCEPT !.err = lerr]]
           /\ pc' = [pc EXCEPT ![p] = "ret"]
       ELSE
           IF lerr # Nil THEN
               /\ call' = [call EXCEPT ![p] = [c1 EXCEPT !.err = lerr]]
               /\ pc' = [pc EXCEPT ![p] = "ret"]
           ELSE
               /\ call' = [call EXCEPT ![p] = [c1 EXCEPT !.reqs = @ + 1, !.secondToken = tok]]
               /\ pc' = [pc EXCEPT ![p] = "req2"]

\* LoginReturn of a loginImpl that never calls setSessionToken
LoginReturn_DropToken(p, c, lerr, st, tok) ==
    /\ nodeRegistrationStatus' = st
    /\ sessionToken' = sessionToken
    /\ LET c1 == [c EXCEPT !.loginErr = lerr] IN
       IF op[p] = OpGetRegistrationStatus THEN
           /\ call' = [call EXCEPT ![p] = [c1 EXCEPT !.ret = st, !.err = lerr]]
           /\ pc' = [pc EXCEPT ![p] = "ret"]
       ELSE IF op[p] = OpLogin THEN
           /\ call' = [call EXCEPT ![p] = [c1 EXCEPT !.err = lerr]]
           /\ pc' = [pc EXCEPT ![p] = "ret"]
       ELSE
           IF lerr # Nil THEN
               /\ call' = [call EXCEPT ![p] = [c1 EXCEPT !.err = lerr]]
               /\ pc' = [pc EXCEPT ![p] = "ret"]
           ELSE
               /\ call' = [call EXCEPT ![p] = [c1 EXCEPT !.reqs = @ + 1, !.secondToken = sessionToken]]
               /\ pc' = [pc EXCEPT ![p] = "req2"]

\* The return of loginImpl with error lerr, status st and token tok stored,
\* followed by the code of its caller up to the next request or the return.
LoginReturn(p, c, lerr, st, tok) ==
    /\ nodeRegistrationStatus' = st
    /\ sessionToken' = tok
    /\ LET c1 == [c EXCEPT !.loginErr = lerr] IN
       IF op[p] = OpGetRegistrationStatus THEN
           \* return m.nodeRegistrationStatus, err
           /\ call' = [call EXCEPT ![p] = [c1 EXCEPT !.ret = st, !.err = lerr]]
           /\ pc' = [pc EXCEPT ![p] = "ret"]
       ELSE IF op[p] = OpLogin THEN
           /\ call' = [call EXCEPT ![p] = [c1 EXCEPT !.err = lerr]]
           /\ pc' = [pc EXCEPT ![p] = "ret"]
       ELSE
           \* runRequest: give up on a login error, else re-run the request
           IF lerr # Nil THEN
               /\ call' = [call EXCEPT ![p] = [c1 EXCEPT !.err = lerr]]
               /\ pc' = [pc EXCEPT ![p] = "ret"]
           ELSE
               /\ call' = [call EXCEPT ![p] = [c1 EXCEPT !.reqs = @ + 1, !.secondToken = tok]]
               /\ pc' = [pc EXCEPT ![p] = "req2"]

\* loginImpl that reports a wallet that is not ready through setRegistrationStatus(Unknown)
loginImpl_WalletNotReadyUnknown(p, c, getStatusOk) ==
    LET c1 == [c EXCEPT !.loginRuns = @ + 1] IN
    IF ~getStatusOk THEN
        LoginReturn(p, c1, ErrWalletStatus, nodeRegistrationStatus, sessionToken)
    ELSE IF CheckIfWalletReady(wallet) # Nil THEN
        LoginReturn(p, c1, ErrWalletNotInitialized,
                    setRegistrationStatus(nodeRegistrationStatus, Unknown), sessionToken)
    ELSE
        /\ call' = [call EXCEPT ![p] = [c1 EXCEPT !.nonces = @ + 1]]
        /\ pc' = [pc EXCEPT ![p] = "nonce"]
        /\ UNCHANGED mgrVars

\* loginImpl up to the nonce request: the wallet check
loginImpl(p, c, getStatusOk) ==
    LET c1 == [c EXCEPT !.loginRuns = @ + 1] IN
    IF ~getStatusOk THEN
        LoginReturn(p, c1, ErrWalletStatus, nodeRegistrationStatus, sessionToken)
    ELSE IF CheckIfWalletReady(wallet) # Nil THEN
        LoginReturn(p, c1, ErrWalletNotInitialized, NoWallet, sessionToken)
    ELSE
        /\ call' = [call EXCEPT ![p] = [c1 EXCEPT !.nonces = @ + 1]]
        /\ pc' = [pc EXCEPT ![p] = "nonce"]
        /\ UNCHANGED mgrVars

\* The answer the service gives to a business request carrying token tok
ValidSession(tok) == tok.kind = "sess" /\ tok.id # 0 /\ tok.id = remoteSession
RequestOutcomes(tok) ==
    {ErrTransport} \cup (IF ValidSession(tok) THEN {Nil, ErrBusiness} ELSE {ErrInvalidSession})

\* The locals of an invocation that has just acquired the lock
Entered == [EmptyCall EXCEPT !.entryStatus = nodeRegistrationStatus, !.entryToken = sessionToken]

\* -------------------------------------------------------------- operations
\* A caller starts an operation and blocks on m.lock.Lock()
Invoke(p) ==
    /\ pc[p] = "idle"
    /\ \E o \in Ops : op' = [op EXCEPT ![p] = o]
    /\ pc' = [pc EXCEPT ![p] = "wait"]
    /\ UNCHANGED <<sessionToken, nodeRegistrationStatus, lock, wallet, remoteVars, call, everRegistered, walletEverLoaded>>

\* GetRegistrationStatus that refreshes whatever the cached status is
GetRegistrationStatus_AlwaysRefresh(p) ==
    /\ pc[p] = "wait" /\ op[p] = OpGetRegistrationStatus
    /\ lock = 0
    /\ lock' = p
    /\ \E getStatusOk \in BOOLEAN : loginImpl(p, Entered, getStatusOk)
    /\ UNCHANGED <<wallet, remoteVars, op, everRegistered, walletEverLoaded>>

\* GetRegistrationStatus that refreshes the status through the public Login,
\* which locks m.lock itself
GetRegistrationStatus_CallsLogin(p) ==
    /\ pc[p] = "wait" /\ op[p] = OpGetRegistrationStatus
    /\ lock = 0
    /\ lock' = p
    /\ IF nodeRegistrationStatus = Unknown \/ nodeRegistrationStatus = NoWallet THEN
           /\ call' = [call EXCEPT ![p] = Entered]
           /\ op' = [op EXCEPT ![p] = OpLogin]
           /\ UNCHANGED <<pc, mgrVars>>
       ELSE
           /\ call' = [call EXCEPT ![p] = [Entered EXCEPT !.ret = nodeRegistrationStatus, !.err = Nil]]
           /\ pc' = [pc EXCEPT ![p] = "ret"]
           /\ UNCHANGED <<op, mgrVars>>
    /\ UNCHANGED <<wallet, remoteVars, everRegistered, walletEverLoaded>>

GetRegistrationStatus(p) ==
    /\ pc[p] = "wait" /\ op[p] = OpGetRegistrationStatus
    /\ lock = 0
    /\ lock' = p
    /\ IF nodeRegistrationStatus = Unknown \/ nodeRegistrationStatus = NoWallet THEN
           \E getStatusOk \in BOOLEAN : loginImpl(p, Entered, getStatusOk)
       ELSE
           /\ call' = [call EXCEPT ![p] = [Entered EXCEPT !.ret = nodeRegistrationStatus, !.err = Nil]]
           /\ pc' = [pc EXCEPT ![p] = "ret"]
           /\ UNCHANGED mgrVars
    /\ UNCHANGED <<wallet, remoteVars, op, everRegistered, walletEverLoaded>>

\* Login that does not wait for the lock
Login_NoLock(p) ==
    /\ pc[p] = "wait" /\ op[p] = OpLogin
    /\ lock' = p
    /\ \E getStatusOk \in BOOLEAN : loginImpl(p, Entered, getStatusOk)
    /\ UNCHANGED <<wallet, remoteVars, op, everRegistered, walletEverLoaded>>

Login(p) ==
    /\ pc[p] = "wait" /\ op[p] = OpLogin
    /\ lock = 0
    /\ lock' = p
    /\ \E getStatusOk \in BOOLEAN : loginImpl(p, Entered, getStatusOk)
    /\ UNCHANGED <<wallet, remoteVars, op, everRegistered, walletEverLoaded>>

\* loginImpl that reports a failure to sign the nonce as status Unknown
NonceResponse_SignFailureUnknown(p) ==
    /\ pc[p] = "nonce"
    /\ \E ok \in BOOLEAN :
        IF ~ok \/ nextToken > MaxTokens THEN
            /\ LoginReturn(p, [call[p] EXCEPT !.nonceErr = ErrTransport], ErrTransport,
                           setRegistrationStatus(nodeRegistrationStatus, Unknown), sessionToken)
            /\ UNCHANGED remoteVars
        ELSE
            LET c1 == [call[p] EXCEPT !.nonceErr = Nil, !.nonce = nextToken] IN
            /\ nextToken' = nextToken + 1
            /\ UNCHANGED <<remoteWhitelisted, remoteRegistered, remoteSession>>
            /\ IF ~wallet.IsLoaded THEN
                   LoginReturn(p, [c1 EXCEPT !.loginReqErr = ErrWalletNotLoaded], ErrWalletNotLoaded,
                               setRegistrationStatus(nodeRegistrationStatus, Unknown), NonceToken(nextToken))
               ELSE
                   /\ sessionToken' = NonceToken(nextToken)
                   /\ call' = [call EXCEPT ![p] = [c1 EXCEPT !.logins = @ + 1]]
                   /\ pc' = [pc EXCEPT ![p] = "login"]
                   /\ UNCHANGED nodeRegistrationStatus
    /\ UNCHANGED <<lock, wallet, op, everRegistered, walletEverLoaded>>

\* loginImpl from the answer to Core.Nonce up to the login request
NonceResponse(p) ==
    /\ pc[p] = "nonce"
    /\ \E ok \in BOOLEAN :
        IF ~ok \/ nextToken > MaxTokens THEN
            /\ LoginReturn(p, [call[p] EXCEPT !.nonceErr = ErrTransport], ErrTransport,
                           setRegistrationStatus(nodeRegistrationStatus, Unknown), sessionToken)
            /\ UNCHANGED remoteVars
        ELSE
            LET c1 == [call[p] EXCEPT !.nonceErr = Nil, !.nonce = nextToken] IN
            /\ nextToken' = nextToken + 1
            /\ UNCHANGED <<remoteWhitelisted, remoteRegistered, remoteSession>>
            /\ IF ~wallet.IsLoaded THEN
                   \* Core.Login fails signing the nonce: no request is sent
                   LoginReturn(p, [c1 EXCEPT !.loginReqErr = ErrWalletNotLoaded], ErrWalletNotLoaded,
                               setRegistrationStatus(nodeRegistrationStatus, NoWallet), NonceToken(nextToken))
               ELSE
                   /\ sessionToken' = NonceToken(nextToken)
                   /\ call' = [call EXCEPT ![p] = [c1 EXCEPT !.logins = @ + 1]]
                   /\ pc' = [pc EXCEPT ![p] = "login"]
                   /\ UNCHANGED nodeRegistrationStatus
    /\ UNCHANGED <<lock, wallet, op, everRegistered, walletEverLoaded>>

\* loginImpl that treats the unregistered-node answer like any other login error
LoginResponse_UnregisteredIsError(p) ==
    /\ pc[p] = "login"
    /\ \E r \in {Nil, ErrTransport, ErrInvalidSession} :
        LET c1 == call[p] IN
        IF r = Nil /\ remoteRegistered THEN
            /\ remoteSession' = c1.nonce
            /\ LoginReturn(p, [c1 EXCEPT !.loginReqErr = Nil], Nil,
                           setRegistrationStatus(nodeRegistrationStatus, Registered), LoginToken(c1.nonce))
        ELSE IF r = Nil THEN
            /\ UNCHANGED remoteSession
            /\ LoginReturn(p, [c1 EXCEPT !.loginReqErr = ErrUnregisteredNode], ErrUnregisteredNode,
                           setRegistrationStatus(nodeRegistrationStatus, Unknown), sessionToken)
        ELSE
            /\ UNCHANGED remoteSession
            /\ LoginReturn(p, [c1 EXCEPT !.loginReqErr = r], r,
                           setRegistrationStatus(nodeRegistrationStatus, Unknown), sessionToken)
    /\ UNCHANGED <<lock, wallet, remoteWhitelisted, remoteRegistered, nextToken, op, everRegistered, walletEverLoaded>>

\* loginImpl that does not store the token of the login response
LoginResponse_KeepNonceToken(p) ==
    /\ pc[p] = "login"
    /\ \E r \in {Nil, ErrTransport, ErrInvalidSession} :
        LET c1 == call[p] IN
        IF r = Nil /\ remoteRegistered THEN
            /\ remoteSession' = c1.nonce
            /\ LoginReturn(p, [c1 EXCEPT !.loginReqErr = Nil], Nil,
                           setRegistrationStatus(nodeRegistrationStatus, Registered), sessionToken)
        ELSE IF r = Nil THEN
            /\ UNCHANGED remoteSession
            /\ LoginReturn(p, [c1 EXCEPT !.loginReqErr = ErrUnregisteredNode], Nil,
                           setRegistrationStatus(nodeRegistrationStatus, Unregistered), sessionToken)
        ELSE
            /\ UNCHANGED remoteSession
            /\ LoginReturn(p, [c1 EXCEPT !.loginReqErr = r], r,
                           setRegistrationStatus(nodeRegistrationStatus, Unknown), sessionToken)
    /\ UNCHANGED <<lock, wallet, remoteWhitelisted, remoteRegistered, nextToken, op, everRegistered, walletEverLoaded>>

\* loginImpl from the answer to Core.Login to its return
LoginResponse(p) ==
    /\ pc[p] = "login"
    /\ \E r \in {Nil, ErrTransport, ErrInvalidSession} :
        LET c1 == call[p] IN
        IF r = Nil /\ remoteRegistered THEN
            /\ remoteSession' = c1.nonce
            /\ LoginReturn(p, [c1 EXCEPT !.loginReqErr = Nil], Nil,
                           setRegistrationStatus(nodeRegistrationStatus, Registered), LoginToken(c1.nonce))
        ELSE IF r = Nil THEN
            /\ UNCHANGED remoteSession
            /\ LoginReturn(p, [c1 EXCEPT !.loginReqErr = ErrUnregisteredNode], Nil,
                           setRegistrationStatus(nodeRegistrationStatus, Unregistered), sessionToken)
        ELSE
            /\ UNCHANGED remoteSession
            /\ LoginReturn(p, [c1 EXCEPT !.loginReqErr = r], r,
                           setRegistrationStatus(nodeRegistrationStatus, Unknown), sessionToken)
    /\ UNCHANGED <<lock, wallet, remoteWhitelisted, remoteRegistered, nextToken, op, everRegistered, walletEverLoaded>>

\* A domain operation that does not wait for the lock
StakeWise_GetVaults_NoLock(p) ==
    /\ pc[p] = "wait" /\ op[p] = OpStakeWise_GetVaults
    /\ lock' = p
    /\ call' = [call EXCEPT ![p] = [Entered EXCEPT !.reqs = 1, !.firstToken = sessionToken]]
    /\ pc' = [pc EXCEPT ![p] = "req1"]
    /\ UNCHANGED <<mgrVars, wallet, remoteVars, op, everRegistered, walletEverLoaded>>

\* A domain operation: lock, then runRequest sends the request with the current token
StakeWise_GetVaults(p) ==
    /\ pc[p] = "wait" /\ op[p] = OpStakeWise_GetVaults
    /\ lock = 0
    /\ lock' = p
    /\ call' = [call EXCEPT ![p] = [Entered EXCEPT !.reqs = 1, !.firstToken = sessionToken]]
    /\ pc' = [pc EXCEPT ![p] = "req1"]
    /\ UNCHANGED <<mgrVars, wallet, remoteVars, op, everRegistered, walletEverLoaded>>

\* runRequest that logs in again after any error of the request
runRequest_LoginOnAnyError(p) ==
    /\ pc[p] = "req1"
    /\ \E r \in RequestOutcomes(call[p].firstToken) :
        LET c1 == [call[p] EXCEPT !.firstErr = r] IN
        IF r = Nil THEN
            /\ call' = [call EXCEPT ![p] = [c1 EXCEPT !.ret = "data", !.err = Nil]]
            /\ pc' = [pc EXCEPT ![p] = "ret"]
            /\ UNCHANGED mgrVars
        ELSE
            \E getStatusOk \in BOOLEAN : loginImpl(p, c1, getStatusOk)
    /\ UNCHANGED <<lock, wallet, remoteVars, op, everRegistered, walletEverLoaded>>

\* runRequest that re-runs the request after an invalid session without logging in
runRequest_RetryWithoutLogin(p) ==
    /\ pc[p] = "req1"
    /\ \E r \in RequestOutcomes(call[p].firstToken) :
        LET c1 == [call[p] EXCEPT !.firstErr = r] IN
        IF r = Nil THEN
            /\ call' = [call EXCEPT ![p] = [c1 EXCEPT !.ret = "data", !.err = Nil]]
            /\ pc' = [pc EXCEPT ![p] = "ret"]
        ELSE IF r = ErrInvalidSession THEN
            /\ call' = [call EXCEPT ![p] = [c1 EXCEPT !.reqs = @ + 1, !.secondToken = sessionToken]]
            /\ pc' = [pc EXCEPT ![p] = "req2"]
        ELSE
            /\ call' = [call EXCEPT ![p] = [c1 EXCEPT !.err = r]]
            /\ pc' = [pc EXCEPT ![p] = "ret"]
    /\ UNCHANGED <<mgrVars, lock, wallet, remoteVars, op, everRegistered, walletEverLoaded>>

\* runRequest from the answer to the first execution of the request
runRequest(p) ==
    /\ pc[p] = "req1"
    /\ \E r \in RequestOutcomes(call[p].firstToken) :
        LET c1 == [call[p] EXCEPT !.firstErr = r] IN
        IF r = Nil THEN
            /\ call' = [call EXCEPT ![p] = [c1 EXCEPT !.ret = "data", !.err = Nil]]
            /\ pc' = [pc EXCEPT ![p] = "ret"]
            /\ UNCHANGED mgrVars
        ELSE IF r = ErrInvalidSession THEN
            \E getStatusOk \in BOOLEAN : loginImpl(p, c1, getStatusOk)
        ELSE
            /\ call' = [call EXCEPT ![p] = [c1 EXCEPT !.err = r]]
            /\ pc' = [pc EXCEPT ![p] = "ret"]
            /\ UNCHANGED mgrVars
    /\ UNCHANGED <<lock, wallet, remoteVars, op, everRegistered, walletEverLoaded>>

\* runRequest that logs in and re-runs again when the re-run hits an invalid session
runRequestRetry_Loop(p) ==
    /\ pc[p] = "req2"
    /\ \E r \in RequestOutcomes(call[p].secondToken) :
        IF r = ErrInvalidSession THEN
            \E getStatusOk \in BOOLEAN :
                loginImpl(p, [call[p] EXCEPT !.secondErr = r, !.loginErr = None], getStatusOk)
        ELSE
            /\ call' = [call EXCEPT ![p] = [@ EXCEPT !.secondErr = r, !.err = r,
                                              !.ret = IF r = Nil THEN "data" ELSE None]]
            /\ pc' = [pc EXCEPT ![p] = "ret"]
            /\ UNCHANGED mgrVars
    /\ UNCHANGED <<lock, wallet, remoteVars, op, everRegistered, walletEverLoaded>>

\* runRequest that returns the error of the first execution after the re-run
runRequestRetry_ReturnsFirstErr(p) ==
    /\ pc[p] = "req2"
    /\ \E r \in RequestOutcomes(call[p].secondToken) :
        /\ call' = [call EXCEPT ![p] = [@ EXCEPT !.secondErr = r, !.err = call[p].firstErr]]
        /\ pc' = [pc EXCEPT ![p] = "ret"]
    /\ UNCHANGED <<mgrVars, lock, wallet, remoteVars, op, everRegistered, walletEverLoaded>>

\* runRequest that returns nil whatever the re-run of the request returned
runRequestRetry_SwallowsError(p) ==
    /\ pc[p] = "req2"
    /\ \E r \in RequestOutcomes(call[p].secondToken) :
        /\ call' = [call EXCEPT ![p] = [@ EXCEPT !.secondErr = r, !.err = Nil, !.ret = "data"]]
        /\ pc' = [pc EXCEPT ![p] = "ret"]
    /\ UNCHANGED <<mgrVars, lock, wallet, remoteVars, op, everRegistered, walletEverLoaded>>

\* runRequest from the answer to the re-run of the request
runRequestRetry(p) ==
    /\ pc[p] = "req2"
    /\ \E r \in RequestOutcomes(call[p].secondToken) :
        /\ call' = [call EXCEPT ![p] = [@ EXCEPT !.secondErr = r, !.err = r,
                                          !.ret = IF r = Nil THEN "data" ELSE None]]
        /\ pc' = [pc EXCEPT ![p] = "ret"]
    /\ UNCHANGED <<mgrVars, lock, wallet, remoteVars, op, everRegistered, walletEverLoaded>>

\* RegisterNode that sends the node-address request whatever the wallet holds
RegisterNode_NoWalletCheck(p) ==
    /\ pc[p] = "wait" /\ op[p] = OpRegisterNode
    /\ lock = 0
    /\ lock' = p
    /\ \E getStatusOk \in BOOLEAN :
        IF ~getStatusOk THEN
            /\ call' = [call EXCEPT ![p] = [Entered EXCEPT !.ret = RegistrationResult_Unknown, !.err = ErrWalletStatus]]
            /\ pc' = [pc EXCEPT ![p] = "ret"]
        ELSE
            /\ call' = [call EXCEPT ![p] = [Entered EXCEPT !.registers = 1]]
            /\ pc' = [pc EXCEPT ![p] = "register"]
    /\ UNCHANGED <<mgrVars, wallet, remoteVars, op, everRegistered, walletEverLoaded>>

\* RegisterNode up to the node-address request
RegisterNode(p) ==
    /\ pc[p] = "wait" /\ op[p] = OpRegisterNode
    /\ lock = 0
    /\ lock' = p
    /\ \E getStatusOk \in BOOLEAN :
        IF ~getStatusOk THEN
            /\ call' = [call EXCEPT ![p] = [Entered EXCEPT !.ret = RegistrationResult_Unknown, !.err = ErrWalletStatus]]
            /\ pc' = [pc EXCEPT ![p] = "ret"]
        ELSE IF ~wallet.IsLoaded THEN
            /\ call' = [call EXCEPT ![p] = [Entered EXCEPT !.ret = RegistrationResult_Unknown, !.err = ErrRegisterNoWallet]]
            /\ pc' = [pc EXCEPT ![p] = "ret"]
        ELSE
            /\ call' = [call EXCEPT ![p] = [Entered EXCEPT !.registers = 1]]
            /\ pc' = [pc EXCEPT ![p] = "register"]
    /\ UNCHANGED <<mgrVars, wallet, remoteVars, op, everRegistered, walletEverLoaded>>

\* The answer of the service to a node-address request
NodeAddressOutcomes ==
    {ErrTransport} \cup
    (IF remoteRegistered THEN {ErrAlreadyRegistered}
     ELSE IF ~remoteWhitelisted THEN {ErrNotWhitelisted}
     ELSE {Nil})

\* RegisterNode that returns every answer but success as a generic error
RegisterNodeResponse_GenericErrors(p) ==
    /\ pc[p] = "register"
    /\ \E r \in NodeAddressOutcomes :
        /\ remoteRegistered' = (remoteRegistered \/ r = Nil)
        /\ everRegistered' = (everRegistered \/ r = Nil)
        /\ nodeRegistrationStatus' =
               IF r # Nil THEN setRegistrationStatus(nodeRegistrationStatus, Unknown)
               ELSE nodeRegistrationStatus
        /\ call' = [call EXCEPT ![p] =
               IF r = Nil THEN [@ EXCEPT !.registerErr = r, !.ret = RegistrationResult_Success, !.err = Nil]
               ELSE [@ EXCEPT !.registerErr = r, !.ret = RegistrationResult_Unknown, !.err = r]]
        /\ pc' = [pc EXCEPT ![p] = "ret"]
    /\ UNCHANGED <<sessionToken, lock, wallet, remoteWhitelisted, remoteSession, nextToken, op, walletEverLoaded>>

\* RegisterNode from the answer to Core.NodeAddress to its return
RegisterNodeResponse(p) ==
    /\ pc[p] = "register"
    /\ \E r \in NodeAddressOutcomes :
        /\ remoteRegistered' = (remoteRegistered \/ r = Nil)
        /\ everRegistered' = (everRegistered \/ r = Nil)
        /\ nodeRegistrationStatus' =
               IF r # Nil THEN setRegistrationStatus(nodeRegistrationStatus, Unknown)
               ELSE nodeRegistrationStatus
        /\ call' = [call EXCEPT ![p] =
               IF r = Nil THEN [@ EXCEPT !.registerErr = r, !.ret = RegistrationResult_Success, !.err = Nil]
               ELSE IF r = ErrAlreadyRegistered THEN [@ EXCEPT !.registerErr = r, !.ret = RegistrationResult_AlreadyRegistered, !.err = Nil]
               ELSE IF r = ErrNotWhitelisted THEN [@ EXCEPT !.registerErr = r, !.ret = RegistrationResult_NotWhitelisted, !.err = Nil]
               ELSE [@ EXCEPT !.registerErr = r, !.ret = RegistrationResult_Unknown, !.err = r]]
        /\ pc' = [pc EXCEPT ![p] = "ret"]
    /\ UNCHANGED <<sessionToken, lock, wallet, remoteWhitelisted, remoteSession, nextToken, op, walletEverLoaded>>

\* A return that leaves the mutex locked
Return_KeepsLock(p) ==
    /\ pc[p] = "ret"
    /\ lock' = lock
    /\ pc' = [pc EXCEPT ![p] = "idle"]
    /\ op' = [op EXCEPT ![p] = None]
    /\ call' = [call EXCEPT ![p] = EmptyCall]
    /\ UNCHANGED <<mgrVars, wallet, remoteVars, everRegistered, walletEverLoaded>>

\* The return of a public method: the deferred m.lock.Unlock()
Return(p) ==
    /\ pc[p] = "ret"
    /\ lock' = 0
    /\ pc' = [pc EXCEPT ![p] = "idle"]
    /\ op' = [op EXCEPT ![p] = None]
    /\ call' = [call EXCEPT ![p] = EmptyCall]
    /\ UNCHANGED <<mgrVars, wallet, remoteVars, everRegistered, walletEverLoaded>>

\* ------------------------------------------------------------- environment
\* The wallet is initialised, recovered, unlocked or removed
SetWallet ==
    /\ \E w \in WalletStatuses \ {wallet} : wallet' = w
    /\ walletEverLoaded' = (walletEverLoaded \/ wallet'.IsLoaded)
    /\ UNCHANGED <<mgrVars, lock, remoteVars, pc, op, call, everRegistered>>

\* The operator of the service whitelists the node address
Whitelist ==
    /\ ~remoteWhitelisted
    /\ remoteWhitelisted' = TRUE
    /\ UNCHANGED <<mgrVars, lock, wallet, remoteRegistered, remoteSession, nextToken, pc, op, call, everRegistered, walletEverLoaded>>

\* The service expires the logged-in session
ExpireSession ==
    /\ remoteSession # 0
    /\ remoteSession' = 0
    /\ UNCHANGED <<mgrVars, lock, wallet, remoteWhitelisted, remoteRegistered, nextToken, pc, op, call, everRegistered, walletEverLoaded>>

Next ==
    \/ \E p \in Procs : Invoke(p) /\ UNCHANGED daemonVars
    \/ \E p \in Procs : GetRegistrationStatus(p) /\ UNCHANGED daemonVars
    \/ \E p \in Procs : Login(p) /\ UNCHANGED daemonVars
    \/ \E p \in Procs : NonceResponse(p) /\ UNCHANGED daemonVars
    \/ \E p \in Procs : LoginResponse(p) /\ UNCHANGED daemonVars
    \/ \E p \in Procs : StakeWise_GetVaults(p) /\ UNCHANGED daemonVars
    \/ \E p \in Procs : runRequest(p) /\ UNCHANGED daemonVars
    \/ \E p \in Procs : runRequestRetry(p) /\ UNCHANGED daemonVars
    \/ \E p \in Procs : RegisterNode(p) /\ UNCHANGED daemonVars
    \/ \E p \in Procs : RegisterNodeResponse(p) /\ UNCHANGED daemonVars
    \/ \E p \in Procs : Return(p) /\ UNCHANGED daemonVars
    \/ SetWallet /\ UNCHANGED daemonVars
    \/ Whitelist /\ UNCHANGED daemonVars
    \/ ExpireSession /\ UNCHANGED daemonVars

Spec == Init /\ [][Next]_vars

\* --------------------------------------------------------------- scheduling
\* m.lock.Lock() returning in caller p
Acquire(p) ==
    \/ GetRegistrationStatus(p)
    \/ Login(p)
    \/ RegisterNode(p)
    \/ StakeWise_GetVaults(p)

\* The code of caller p that follows the answer to its request in flight, or
\* its return
Proceed(p) ==
    \/ NonceResponse(p)
    \/ LoginResponse(p)
    \/ runRequest(p)
    \/ runRequestRetry(p)
    \/ RegisterNodeResponse(p)
    \/ Return(p)

\* Every remote call returns and the code after it runs; a goroutine blocked in
\* Lock() gets the mutex if it is released again and again (sync.Mutex hands
\* the lock to the longest waiter in starvation mode).
Fairness ==
    /\ WF_vars(\E p \in Procs : Proceed(p) /\ UNCHANGED daemonVars)
    /\ \A p \in Procs : SF_vars(Acquire(p) /\ UNCHANGED daemonVars)

\* Managers to start from: the new manager; one with a ready, whitelisted
\* wallet; one whose session has expired at the service; one logged in whose
\* wallet has been removed since.
LiveStarts ==
    {[token |-> NoToken, status |-> Unknown, w |-> WalletNone, white |-> FALSE, reg |-> FALSE, sess |-> 0],
     [token |-> NoToken, status |-> Unknown, w |-> WalletReady, white |-> TRUE, reg |-> FALSE, sess |-> 0],
     [token |-> LoginToken(1), status |-> Registered, w |-> WalletReady, white |-> TRUE, reg |-> TRUE, sess |-> 0],
     [token |-> LoginToken(1), status |-> Registered, w |-> WalletNone, white |-> TRUE, reg |-> TRUE, sess |-> 1]}

InitLive ==
    /\ \E s \in LiveStarts :
        /\ sessionToken = s.token
        /\ nodeRegistrationStatus = s.status
        /\ wallet = s.w
        /\ remoteWhitelisted = s.white
        /\ remoteRegistered = s.reg
        /\ remoteSession = s.sess
        /\ nextToken = IF s.token = NoToken THEN 1 ELSE 2
        /\ everRegistered = s.reg
        /\ walletEverLoaded = (s.w.IsLoaded \/ s.reg)
    /\ lock = 0
    /\ pc = [p \in Procs |-> "idle"]
    /\ op = [p \in Procs |-> None]
    /\ call = [p \in Procs |-> EmptyCall]
    /\ api = [p \in Procs |-> NoRequest]
    /\ waiter = [p \in Procs |-> NoWait]
    /\ cfg = NewHyperdriveConfig
    /\ lastCall = NoCall
    /\ ready = NoChecks

\* A call whose context carries no logger: the method panics after taking the
\* lock (in loginImpl for GetRegistrationStatus and Login, which
\* GetRegistrationStatus only runs on a cached Unknown or NoWallet), and the
\* deferred unlock is still to run
PanicNoLogger(p) ==
    /\ pc[p] = "wait"
    /\ op[p] = OpGetRegistrationStatus => nodeRegistrationStatus \in {Unknown, NoWallet}
    /\ lock = 0
    /\ lock' = p
    /\ call' = [call EXCEPT ![p] = [Entered EXCEPT !.err = Panicked]]
    /\ pc' = [pc EXCEPT ![p] = "ret"]
    /\ UNCHANGED <<mgrVars, wallet, remoteVars, op, everRegistered, walletEverLoaded>>

\* The wallet is removed from the node
RemoveWallet == wallet.IsLoaded /\ SetWallet /\ wallet' = WalletNone

\* The steps of the callers and the removal of the wallet; the state of the
\* service changes only through the callers' requests
NextLive ==
    \/ \E p \in Procs : Invoke(p) /\ UNCHANGED daemonVars
    \/ \E p \in Procs : Acquire(p) /\ UNCHANGED daemonVars
    \/ \E p \in Procs : PanicNoLogger(p) /\ UNCHANGED daemonVars
    \/ \E p \in Procs : Proceed(p) /\ UNCHANGED daemonVars
    \/ RemoveWallet /\ UNCHANGED daemonVars

LiveSpec == InitLive /\ [][NextLive]_vars /\ Fairness

\* ------------------------------------------- concurrent calls on a stale session
\* The manager with a registered node, a ready wallet and a session token the
\* service does not accept (a session that expired, or the token of a login
\* that did not complete), while every caller has invoked a domain operation.
StaleSessions ==
    {<<LoginToken(1), Registered>>, <<LoginToken(1), NoWallet>>,
     <<NonceToken(1), Unregistered>>, <<NonceToken(1), Unknown>>, <<NonceToken(1), NoWallet>>}

InitStorm ==
    /\ \E s \in StaleSessions : sessionToken = s[1] /\ nodeRegistrationStatus = s[2]
    /\ lock = 0
    /\ wallet = WalletReady
    /\ remoteWhitelisted = TRUE
    /\ remoteRegistered = TRUE
    /\ remoteSession = 0
    /\ nextToken = 2
    /\ pc = [p \in Procs |-> "wait"]
    /\ op = [p \in Procs |-> OpStakeWise_GetVaults]
    /\ call = [p \in Procs |-> EmptyCall]
    /\ everRegistered = TRUE
    /\ walletEverLoaded = TRUE
    /\ api = [p \in Procs |-> NoRequest]
    /\ waiter = [p \in Procs |-> NoWait]
    /\ cfg = NewHyperdriveConfig
    /\ lastCall = NoCall
    /\ ready = NoChecks

\* A step in which the service answers the request in flight from its state
\* and wallet.GetStatus() succeeds
QuietStep ==
    \A p \in Procs :
        /\ call'[p].firstErr \notin {ErrTransport, ErrBusiness}
        /\ call'[p].secondErr \notin {ErrTransport, ErrBusiness}
        /\ call'[p].nonceErr # ErrTransport
        /\ call'[p].loginReqErr \notin {ErrTransport, ErrInvalidSession}
        /\ call'[p].loginErr # ErrWalletStatus

\* The callers run their domain operations, and then any operation but an
\* explicit Login, over a quiet environment
NextStorm ==
    \/ \E p \in Procs : Invoke(p) /\ op'[p] # OpLogin /\ UNCHANGED daemonVars
    \/ \E p \in Procs : GetRegistrationStatus(p) /\ QuietStep /\ UNCHANGED daemonVars
    \/ \E p \in Procs : RegisterNode(p) /\ UNCHANGED daemonVars
    \/ \E p \in Procs : RegisterNodeResponse(p) /\ UNCHANGED daemonVars
    \/ \E p \in Procs : StakeWise_GetVaults(p) /\ UNCHANGED daemonVars
    \/ \E p \in Procs : runRequest(p) /\ QuietStep /\ UNCHANGED daemonVars
    \/ \E p \in Procs : NonceResponse(p) /\ QuietStep /\ UNCHANGED daemonVars
    \/ \E p \in Procs : LoginResponse(p) /\ QuietStep /\ UNCHANGED daemonVars
    \/ \E p \in Procs : runRequestRetry(p) /\ QuietStep /\ UNCHANGED daemonVars
    \/ \E p \in Procs : Return(p) /\ UNCHANGED daemonVars

SpecStorm == InitStorm /\ [][NextStorm]_vars

\* ------------------------------------------------------------ API handlers
\* types.ResponseStatus
ResponseStatus_Success == "ResponseStatus_Success"
ResponseStatus_Error == "ResponseStatus_Error"
ResponseStatus_WalletNotReady == "ResponseStatus_WalletNotReady"

\* The routes: four domain handlers and get-registration-status
GetVaults == "stakewise/get-vaults"
GetValidatorsInfo == "stakewise/get-validators-info"
GetValidatorManagerSignature == "stakewise/get-validator-manager-signature"
GetRegistrationSignature == "constellation/get-registration-signature"
GetStatus == "get-registration-status"
DomainHandlers == {GetVaults, GetValidatorsInfo, GetValidatorManagerSignature, GetRegistrationSignature}
Handlers == DomainHandlers \cup {GetStatus}

\* The error codes of the domain endpoints that some handler recognises
ErrVaultNotFound == "ErrVaultNotFound"
ErrInvalidPermissions == "ErrInvalidPermissions"
ErrDepositRootAlreadyAssigned == "ErrDepositRootAlreadyAssigned"
ErrNodeUnauthorized == "ErrNodeUnauthorized"
ErrIncorrectNodeAddress == "ErrIncorrectNodeAddress"
RemoteCodes == {ErrVaultNotFound, ErrInvalidPermissions, ErrDepositRootAlreadyAssigned,
                ErrNodeUnauthorized, ErrIncorrectNodeAddress}

\* Errors of the daemon's service provider
Common_ErrNeedPassword == "common.ErrNeedPassword"
ErrCantLoadWallet == "ErrCantLoadWallet"
ErrNoKeystore == "ErrNoKeystore"
ErrNoAddress == "ErrNoAddress"
ErrAddressMismatch == "ErrAddressMismatch"
ErrNotRegisteredWithNodeSet == "ErrNotRegisteredWithNodeSet"
ErrWalletNotReady == "ErrWalletNotReady"
ErrUnknownStatus == "ErrUnknownStatus"   \* "unknown registration status [%v]"

\* RequireWalletReady that does not test for the node address
RequireWalletReady_NoAddressTest(status) ==
    IF ~status.IsLoaded THEN
        IF status.IsOnDisk THEN
            IF ~status.IsPasswordSaved THEN Common_ErrNeedPassword ELSE ErrCantLoadWallet
        ELSE ErrNoKeystore
    ELSE IF ~status.AddrMatch THEN ErrAddressMismatch
    ELSE Nil

\* serviceProvider.RequireWalletReady on the wallet status it read
RequireWalletReady(status) ==
    IF ~status.IsLoaded THEN
        IF status.IsOnDisk THEN
            IF ~status.IsPasswordSaved THEN Common_ErrNeedPassword ELSE ErrCantLoadWallet
        ELSE ErrNoKeystore
    ELSE IF ~status.HasAddress THEN ErrNoAddress
    ELSE IF ~status.AddrMatch THEN ErrAddressMismatch
    ELSE Nil

\* RequireRegisteredWithNodeSet that lets an unregistered node through
RequireRegisteredWithNodeSet_AllowsUnregistered(status, err) ==
    IF err # Nil THEN err
    ELSE IF status = Registered THEN Nil
    ELSE IF status = Unregistered THEN Nil
    ELSE IF status = NoWallet THEN ErrWalletNotReady
    ELSE ErrUnknownStatus

\* serviceProvider.RequireRegisteredWithNodeSet on what GetRegistrationStatus returned
RequireRegisteredWithNodeSet(status, err) ==
    IF err # Nil THEN err
    ELSE IF status = Registered THEN Nil
    ELSE IF status = Unregistered THEN ErrNotRegisteredWithNodeSet
    ELSE IF status = NoWallet THEN ErrWalletNotReady
    ELSE ErrUnknownStatus

\* The flag a domain handler sets for an error of its business operation, None
\* for an error it does not recognise
FlagFor(h, e) ==
    IF h = GetVaults /\ e = ErrInvalidPermissions THEN "InvalidPermissions"
    ELSE IF h = GetValidatorManagerSignature /\ e = ErrVaultNotFound THEN "VaultNotFound"
    ELSE IF h = GetValidatorManagerSignature /\ e = ErrInvalidPermissions THEN "InvalidPermissions"
    ELSE IF h = GetValidatorManagerSignature /\ e = ErrDepositRootAlreadyAssigned THEN "DepositRootAlreadyUsed"
    ELSE IF h = GetRegistrationSignature /\ e = ErrNodeUnauthorized THEN "NotAuthorized"
    ELSE IF h = GetRegistrationSignature /\ e = ErrInvalidPermissions THEN "InvalidPermissions"
    ELSE IF h = GetRegistrationSignature /\ e = ErrIncorrectNodeAddress THEN "IncorrectNodeAddress"
    ELSE None

\* The end of PrepareData that assigns the payload also next to a flag
BusinessResponse_PayloadWithFlag(r, e) ==
    IF e = Nil THEN
        [r EXCEPT !.stage = "done", !.payload = TRUE,
                  !.responseStatus = ResponseStatus_Success, !.responseErr = Nil]
    ELSE IF FlagFor(r.handler, e) # None THEN
        [r EXCEPT !.stage = "done", !.flags = @ \cup {FlagFor(r.handler, e)}, !.payload = TRUE,
                  !.responseStatus = ResponseStatus_Success, !.responseErr = Nil]
    ELSE
        [r EXCEPT !.stage = "done", !.responseStatus = ResponseStatus_Error, !.responseErr = e]

\* The end of PrepareData of a domain handler: the response to error e of the
\* business operation
BusinessResponse(r, e) ==
    IF e = Nil THEN
        [r EXCEPT !.stage = "done", !.payload = TRUE,
                  !.responseStatus = ResponseStatus_Success, !.responseErr = Nil]
    ELSE IF FlagFor(r.handler, e) # None THEN
        [r EXCEPT !.stage = "done", !.flags = @ \cup {FlagFor(r.handler, e)},
                  !.responseStatus = ResponseStatus_Success, !.responseErr = Nil]
    ELSE
        [r EXCEPT !.stage = "done", !.responseStatus = ResponseStatus_Error, !.responseErr = e]

\* PrepareData of get-registration-status that reports every error of the manager
StatusResponse_AlwaysMessage(r, status, err) ==
    [r EXCEPT !.stage = "done", !.Status = status,
              !.ErrorMessage = IF err # Nil THEN err ELSE "",
              !.responseStatus = ResponseStatus_Success, !.responseErr = Nil]

\* PrepareData of get-registration-status from the return of GetRegistrationStatus
StatusResponse(r, status, err) ==
    [r EXCEPT !.stage = "done", !.Status = status,
              !.ErrorMessage = IF status = Unknown /\ err # Nil THEN err ELSE "",
              !.responseStatus = ResponseStatus_Success, !.responseErr = Nil]

\* PrepareData up to its first call of the manager: the requirement on the
\* wallet, then ns.GetRegistrationStatus (inside RequireRegisteredWithNodeSet for
\* a domain handler)
PrepareData(p) ==
    /\ pc[p] = "idle" /\ api[p].stage = "none"
    /\ \E h \in Handlers, getStatusOk \in BOOLEAN :
        LET r == [NoRequest EXCEPT !.handler = h]
            werr == IF getStatusOk THEN RequireWalletReady(wallet) ELSE ErrWalletStatus IN
        IF h = GetStatus THEN
            /\ api' = [api EXCEPT ![p] = [r EXCEPT !.stage = "status", !.statusCalls = 1]]
            /\ pc' = [pc EXCEPT ![p] = "wait"]
            /\ op' = [op EXCEPT ![p] = OpGetRegistrationStatus]
        ELSE IF werr # Nil THEN
            /\ api' = [api EXCEPT ![p] =
                   [r EXCEPT !.stage = "done", !.requireWalletReady = werr,
                             !.responseStatus = ResponseStatus_WalletNotReady, !.responseErr = werr]]
            /\ UNCHANGED <<pc, op>>
        ELSE
            /\ api' = [api EXCEPT ![p] =
                   [r EXCEPT !.stage = "requireRegistered", !.requireWalletReady = Nil, !.statusCalls = 1]]
            /\ pc' = [pc EXCEPT ![p] = "wait"]
            /\ op' = [op EXCEPT ![p] = OpGetRegistrationStatus]
    /\ UNCHANGED <<mgrVars, lock, wallet, remoteVars, call, everRegistered, walletEverLoaded, waiter, cfg, lastCall, ready>>

\* The manager method PrepareData has called returns to it
ManagerReturns(p) ==
    /\ api[p].stage \in {"status", "requireRegistered", "business"} /\ ~api[p].returned
    /\ Return(p)
    /\ api' = [api EXCEPT ![p] = [@ EXCEPT !.returned = TRUE, !.ret = call[p].ret, !.err = call[p].err]]
    /\ UNCHANGED <<waiter, cfg, lastCall, ready>>

\* PrepareData from the return of a manager method to its next call of the
\* manager or to its own return
PrepareData_Resume(p) ==
    /\ pc[p] = "idle" /\ api[p].returned
    /\ LET r == [api[p] EXCEPT !.returned = FALSE] IN
       IF r.stage = "status" THEN
           /\ api' = [api EXCEPT ![p] = StatusResponse(r, r.ret, r.err)]
           /\ UNCHANGED <<pc, op>>
       ELSE IF r.stage = "requireRegistered" THEN
           LET e == RequireRegisteredWithNodeSet(r.ret, r.err)
               r1 == [r EXCEPT !.requireRegisteredWithNodeSet = e] IN
           IF e = Nil THEN
               /\ api' = [api EXCEPT ![p] = [r1 EXCEPT !.stage = "business", !.businessCalls = 1]]
               /\ pc' = [pc EXCEPT ![p] = "wait"]
               /\ op' = [op EXCEPT ![p] = OpStakeWise_GetVaults]
           ELSE IF e = ErrNotRegisteredWithNodeSet THEN
               /\ api' = [api EXCEPT ![p] =
                      [r1 EXCEPT !.stage = "done", !.flags = @ \cup {"NotRegistered"},
                                 !.responseStatus = ResponseStatus_Success, !.responseErr = Nil]]
               /\ UNCHANGED <<pc, op>>
           ELSE
               /\ api' = [api EXCEPT ![p] =
                      [r1 EXCEPT !.stage = "done",
                                 !.responseStatus = ResponseStatus_Error, !.responseErr = e]]
               /\ UNCHANGED <<pc, op>>
       ELSE
           \* the business operation returned; an error code of the endpoint
           \* is one of the codes the handlers tell apart
           /\ \E code \in RemoteCodes :
               LET e == IF r.err = ErrBusiness THEN code ELSE r.err IN
               api' = [api EXCEPT ![p] = BusinessResponse([r EXCEPT !.businessErr = e], e)]
           /\ UNCHANGED <<pc, op>>
    /\ UNCHANGED <<mgrVars, lock, wallet, remoteVars, call, everRegistered, walletEverLoaded, waiter, cfg, lastCall, ready>>

\* The response is sent
Respond(p) ==
    /\ api[p].stage = "done"
    /\ api' = [api EXCEPT ![p] = NoRequest]
    /\ UNCHANGED <<mgrVars, lock, wallet, remoteVars, pc, op, call, everRegistered, walletEverLoaded, waiter, cfg, lastCall, ready>>

\* The daemon serving API requests: the manager is called by the handlers
\* only. It starts with one of the managers of LiveStarts, or with a new manager
\* whose wallet does not match the node address.
ApiStarts ==
    LiveStarts \cup
    {[token |-> NoToken, status |-> Unknown, w |-> WalletMismatch, white |-> FALSE, reg |-> FALSE, sess |-> 0]}

InitApi ==
    /\ \E s \in ApiStarts :
        /\ sessionToken = s.token
        /\ nodeRegistrationStatus = s.status
        /\ wallet = s.w
        /\ remoteWhitelisted = s.white
        /\ remoteRegistered = s.reg
        /\ remoteSession = s.sess
        /\ nextToken = IF s.token = NoToken THEN 1 ELSE 2
        /\ everRegistered = s.reg
        /\ walletEverLoaded = (s.w.IsLoaded \/ s.reg)
    /\ lock = 0
    /\ pc = [p \in Procs |-> "idle"]
    /\ op = [p \in Procs |-> None]
    /\ call = [p \in Procs |-> EmptyCall]
    /\ api = [p \in Procs |-> NoRequest]
    /\ waiter = [p \in Procs |-> NoWait]
    /\ cfg = NewHyperdriveConfig
    /\ lastCall = NoCall
    /\ ready = NoChecks

\* The code of a handler between two calls of the manager, and the sending
\* of its response, take no time: they run before anything else moves
Pending == \E q \in Procs : api[q].returned \/ api[q].stage = "done"

NextApi ==
    \/ \E p \in Procs : PrepareData(p) /\ ~Pending
    \/ \E p \in Procs : GetRegistrationStatus(p) /\ ~Pending /\ UNCHANGED daemonVars
    \/ \E p \in Procs : NonceResponse(p) /\ ~Pending /\ UNCHANGED daemonVars
    \/ \E p \in Procs : LoginResponse(p) /\ ~Pending /\ UNCHANGED daemonVars
    \/ \E p \in Procs : StakeWise_GetVaults(p) /\ ~Pending /\ UNCHANGED daemonVars
    \/ \E p \in Procs : runRequest(p) /\ ~Pending /\ UNCHANGED daemonVars
    \/ \E p \in Procs : runRequestRetry(p) /\ ~Pending /\ UNCHANGED daemonVars
    \/ \E p \in Procs : ManagerReturns(p) /\ ~Pending
    \/ \E p \in Procs : PrepareData_Resume(p)
    \/ \E p \in Procs : Respond(p)
    \/ RemoveWallet /\ ~Pending /\ UNCHANGED daemonVars
    \/ ExpireSession /\ ~Pending /\ UNCHANGED daemonVars

SpecApi == InitApi /\ [][NextApi]_vars

\* ---------------------------------------------------------------- properties
\* A caller at the return statement of operation o
AtRet(p, o) == pc[p] = "ret" /\ op[p] = o
\* Requests the invocation has sent to the service
Requests(c) == c.reqs + c.nonces + c.logins + c.registers
Known == {Unregistered, Registered}

\* C1: after a RegisterNode has returned Success, a GetRegistrationStatus that
\* returns without error returns Registered, also when Unregistered had been
\* cached before the registration; and while the service has no registration
\* a GetRegistrationStatus that returns without error returns Unregistered.
C1_EndToEndRegistration ==
    \A p \in Procs :
        (AtRet(p, OpGetRegistrationStatus) /\ call[p].err = Nil) =>
            /\ everRegistered => call[p].ret = Registered
            /\ ~remoteRegistered => call[p].ret = Unregistered

\* C2: no step changes the cached status from Unregistered or Registered to
\* Unknown; a nonce request that fails in a call entered with status
\* Registered leaves the status at Registered.
C2_StatusStickiness ==
    [][/\ nodeRegistrationStatus \in Known => nodeRegistrationStatus' # Unknown
       /\ \A p \in Procs :
            (pc[p] = "nonce" /\ call[p].entryStatus = Registered /\ call'[p].nonceErr = ErrTransport)
                => nodeRegistrationStatus' = Registered]_vars

C2_Witness ==
    \E p \in Procs :
        /\ pc[p] = "ret" /\ call[p].nonceErr = ErrTransport
        /\ call[p].entryStatus = Registered /\ nodeRegistrationStatus = Registered

\* C3 (as claimed): the cached status leaves Unregistered or Registered only
\* in the step in which a login returns without error.
C3_LeavesKnownOnlyBySuccessfulLogin ==
    [][(nodeRegistrationStatus \in Known /\ nodeRegistrationStatus' # nodeRegistrationStatus)
         => \E p \in Procs : call[p].loginErr = None /\ call'[p].loginErr = Nil]_vars

\* C3 (amended): the cached status leaves Unregistered or Registered only in
\* the step in which a login returns: either without error, and then the new
\* status is Unregistered or Registered, or with the error of a wallet that is
\* not ready or not loaded, and then the new status is NoWallet.
C3_LeavesKnownOnlyByLogin ==
    [][(nodeRegistrationStatus \in Known /\ nodeRegistrationStatus' # nodeRegistrationStatus)
         => \E p \in Procs :
              /\ lock' = p /\ call[p].loginErr = None
              /\ \/ call'[p].loginErr = Nil /\ nodeRegistrationStatus' \in Known
                 \/ /\ call'[p].loginErr \in {ErrWalletNotInitialized, ErrWalletNotLoaded}
                    /\ nodeRegistrationStatus' = NoWallet]_vars

C3_Witness ==
    \E p \in Procs :
        /\ pc[p] = "ret" /\ call[p].entryStatus = Registered
        /\ call[p].loginErr = ErrWalletNotInitialized /\ nodeRegistrationStatus = NoWallet

\* C4: an invocation executes the business request at most twice and runs the
\* login at most once; when the request fails with invalid-session before and
\* after the re-login, the second failure is what the caller gets.
C4_RetryBound ==
    \A p \in Procs :
        /\ call[p].reqs <= 2
        /\ call[p].loginRuns <= 1
        /\ (AtRet(p, OpStakeWise_GetVaults) /\ call[p].firstErr = ErrInvalidSession
                /\ call[p].secondErr = ErrInvalidSession)
            => (call[p].err = ErrInvalidSession /\ call[p].reqs = 2 /\ call[p].loginRuns = 1
                /\ call[p].nonces = 1 /\ call[p].logins = 1)

C4_Witness ==
    \E p \in Procs :
        /\ AtRet(p, OpStakeWise_GetVaults) /\ call[p].firstErr = ErrInvalidSession
        /\ call[p].secondErr = ErrInvalidSession /\ call[p].err = ErrInvalidSession

\* C5: a business call whose first execution fails with invalid-session and
\* whose retry succeeds returns success after exactly two executions of the
\* request and one login (one nonce request, one login request), and the
\* requests of a re-login are sent between the two executions.
C5_RetrySucceeds ==
    \A p \in Procs :
        /\ (AtRet(p, OpStakeWise_GetVaults) /\ call[p].firstErr = ErrInvalidSession
                /\ call[p].secondErr = Nil)
            => (call[p].err = Nil /\ call[p].reqs = 2 /\ call[p].loginRuns = 1
                /\ call[p].nonces = 1 /\ call[p].logins = 1)
        /\ (op[p] = OpStakeWise_GetVaults /\ pc[p] \in {"nonce", "login"})
            => (call[p].reqs = 1 /\ call[p].firstErr = ErrInvalidSession /\ call[p].secondErr = None)

C5_Witness ==
    \E p \in Procs :
        /\ AtRet(p, OpStakeWise_GetVaults) /\ call[p].firstErr = ErrInvalidSession
        /\ call[p].secondErr = Nil /\ call[p].err = Nil

\* C6: when the request fails with invalid-session and the re-login returns an
\* error, the caller gets that login error and the request is not re-run.
C6_LoginErrorPropagates ==
    \A p \in Procs :
        (AtRet(p, OpStakeWise_GetVaults) /\ call[p].firstErr = ErrInvalidSession
            /\ call[p].loginErr \notin {None, Nil})
        => (call[p].err = call[p].loginErr /\ call[p].reqs = 1 /\ call[p].secondErr = None)

C6_Witness ==
    \E p \in Procs :
        /\ AtRet(p, OpStakeWise_GetVaults) /\ call[p].firstErr = ErrInvalidSession
        /\ call[p].loginErr = ErrTransport /\ call[p].err = ErrTransport

\* C7: when the first execution fails with an error other than invalid-session
\* the caller gets that error, no nonce or login request was sent, the request
\* was executed once, and the token and the cached status are as on entry.
C7_OtherErrorImmediate ==
    \A p \in Procs :
        (AtRet(p, OpStakeWise_GetVaults) /\ call[p].firstErr \notin {None, Nil, ErrInvalidSession})
        => /\ call[p].err = call[p].firstErr
           /\ call[p].reqs = 1 /\ call[p].nonces = 0 /\ call[p].logins = 0 /\ call[p].loginRuns = 0
           /\ sessionToken = call[p].entryToken
           /\ nodeRegistrationStatus = call[p].entryStatus

C7_Witness ==
    \E p \in Procs :
        /\ AtRet(p, OpStakeWise_GetVaults) /\ call[p].firstErr = ErrBusiness
        /\ call[p].err = ErrBusiness

\* C8 (as claimed): a domain operation returns an invalid-session error only
\* when the recovery login failed.
C8_InvalidSessionOnlyIfLoginFailed ==
    \A p \in Procs :
        (AtRet(p, OpStakeWise_GetVaults) /\ call[p].err = ErrInvalidSession)
        => call[p].loginErr \notin {None, Nil}

\* C8 (amended): a domain operation returns an invalid-session error only when
\* the recovery login failed with that error, or when the recovery login
\* returned no error and the re-run failed with invalid-session again; an
\* invalid-session followed by a successful re-run is not returned.
C8_InvalidSessionVisibility ==
    \A p \in Procs :
        /\ (AtRet(p, OpStakeWise_GetVaults) /\ call[p].err = ErrInvalidSession)
            => /\ call[p].firstErr = ErrInvalidSession
               /\ \/ call[p].loginErr = ErrInvalidSession /\ call[p].reqs = 1
                  \/ call[p].loginErr = Nil /\ call[p].secondErr = ErrInvalidSession
        /\ (AtRet(p, OpStakeWise_GetVaults) /\ call[p].firstErr = ErrInvalidSession
                /\ call[p].secondErr = Nil)
            => call[p].err = Nil

C8_Witness ==
    \E p \in Procs :
        /\ AtRet(p, OpStakeWise_GetVaults) /\ call[p].err = ErrInvalidSession
        /\ call[p].loginErr = Nil /\ call[p].loginReqErr = Nil
        /\ call[p].secondErr = ErrInvalidSession

\* C9 (as claimed): a domain operation entered with cached status Unknown or
\* NoWallet has run a login before its request is first sent, and sends it
\* with the token of that login.
C9_LoginBeforeFirstRequest ==
    \A p \in Procs :
        (op[p] = OpStakeWise_GetVaults /\ call[p].reqs >= 1
            /\ call[p].entryStatus \in {Unknown, NoWallet})
        => (call[p].loginRuns = 1 /\ call[p].firstToken.kind = "sess"
            /\ call[p].firstToken.id = call[p].nonce)

\* C9 (amended): a domain operation entered with cached status Unknown or
\* NoWallet first sends its request with the token stored on entry and
\* without a login; a login is run only after that request failed with
\* invalid-session, and the re-run is sent with the token stored by that login.
C9_LoginOnlyAfterInvalidSession ==
    \A p \in Procs :
        (op[p] = OpStakeWise_GetVaults /\ call[p].reqs >= 1
            /\ call[p].entryStatus \in {Unknown, NoWallet})
        => /\ call[p].firstToken = call[p].entryToken
           /\ pc[p] = "req1" => (call[p].loginRuns = 0 /\ call[p].nonces = 0)
           /\ call[p].loginRuns = 1 => call[p].firstErr = ErrInvalidSession
           /\ call[p].reqs = 2 =>
                /\ call[p].loginErr = Nil
                /\ call[p].secondToken = sessionToken
                /\ call[p].secondToken.kind # "none"
                /\ call[p].secondToken.id = call[p].nonce

C9_Witness ==
    \E p \in Procs :
        /\ AtRet(p, OpStakeWise_GetVaults) /\ call[p].entryStatus = Unknown
        /\ call[p].reqs = 2 /\ call[p].loginRuns = 1 /\ call[p].secondErr = Nil

\* C10: GetRegistrationStatus entered with cached status Unregistered or
\* Registered returns that status and no error, sends no request, and leaves
\* the token and the cached status as they were.
C10_CachedStatusRead ==
    \A p \in Procs :
        (AtRet(p, OpGetRegistrationStatus) /\ call[p].entryStatus \in Known)
        => /\ call[p].ret = call[p].entryStatus
           /\ call[p].err = Nil
           /\ Requests(call[p]) = 0 /\ call[p].loginRuns = 0
           /\ sessionToken = call[p].entryToken
           /\ nodeRegistrationStatus = call[p].entryStatus

C10_Witness ==
    \E p \in Procs :
        /\ AtRet(p, OpGetRegistrationStatus) /\ call[p].entryStatus = Registered
        /\ call[p].ret = Registered /\ call[p].err = Nil

\* C11: GetRegistrationStatus entered with cached status Unknown or NoWallet
\* runs the login exactly once and returns the status that login left; when
\* that status is Registered or Unregistered, one nonce request and one login
\* request were sent during the invocation.
C11_ForcedRefresh ==
    \A p \in Procs :
        (AtRet(p, OpGetRegistrationStatus) /\ call[p].entryStatus \in {Unknown, NoWallet})
        => /\ call[p].loginRuns = 1
           /\ call[p].ret = nodeRegistrationStatus
           /\ call[p].err = call[p].loginErr
           /\ call[p].ret \in Known =>
                (call[p].nonces = 1 /\ call[p].logins = 1 /\ Requests(call[p]) = 2)

C11_Witness ==
    \E p \in Procs :
        /\ AtRet(p, OpGetRegistrationStatus) /\ call[p].entryStatus = NoWallet
        /\ call[p].ret = Registered /\ call[p].nonces = 1 /\ call[p].logins = 1

\* C12 (as claimed): while the wallet has never been loaded, every
\* GetRegistrationStatus returns NoWallet and has sent at most one request.
C12_NeverLoadedReturnsNoWallet ==
    \A p \in Procs :
        (AtRet(p, OpGetRegistrationStatus) /\ ~walletEverLoaded)
        => (call[p].ret = NoWallet /\ Requests(call[p]) <= 1)

\* C12 (amended): while the wallet has never been loaded, every
\* GetRegistrationStatus that could read the wallet status returns NoWallet
\* with an error; one whose read of the wallet status failed returns that
\* error and the cached status unchanged; each has sent at most one request.
C12_NeverLoadedNoWalletUnlessStatusError ==
    \A p \in Procs :
        (AtRet(p, OpGetRegistrationStatus) /\ ~walletEverLoaded)
        => /\ Requests(call[p]) <= 1
           /\ call[p].err # Nil
           /\ call[p].err # ErrWalletStatus => call[p].ret = NoWallet
           /\ call[p].err = ErrWalletStatus =>
                (call[p].ret = call[p].entryStatus /\ call[p].ret \in {Unknown, NoWallet})

C12_Witness ==
    \E p \in Procs :
        /\ AtRet(p, OpGetRegistrationStatus) /\ ~walletEverLoaded
        /\ call[p].entryStatus = Unknown
        /\ call[p].ret = NoWallet /\ call[p].err = ErrWalletNotInitialized

\* C13: a login that finds the wallet not ready leaves the cached status at
\* NoWallet whatever it was, returns an error to its caller, and has sent
\* neither a nonce request nor a login request.
C13_WalletNotReadyLogin ==
    \A p \in Procs :
        (pc[p] = "ret" /\ call[p].loginErr = ErrWalletNotInitialized)
        => /\ nodeRegistrationStatus = NoWallet
           /\ call[p].err = ErrWalletNotInitialized
           /\ call[p].nonces = 0 /\ call[p].logins = 0
           /\ call[p].secondErr = None
           /\ sessionToken = call[p].entryToken

C13_Witness ==
    \E p \in Procs :
        /\ AtRet(p, OpStakeWise_GetVaults) /\ call[p].entryStatus = Unregistered
        /\ call[p].loginErr = ErrWalletNotInitialized /\ nodeRegistrationStatus = NoWallet

\* Positions inside a public method, and positions with a request in flight
Executing(p) == pc[p] \notin {"idle", "wait"}
InFlight(p) == pc[p] \in {"nonce", "login", "req1", "req2", "register"}

\* C14: a caller is inside a public method exactly while it holds the lock, so
\* at most one method is executing and at most one request is in flight; and
\* every step that writes the session token or the cached status is a step of
\* the caller that holds the lock.
C14_MutualExclusion ==
    /\ [](/\ \A p \in Procs : Executing(p) <=> lock = p
          /\ Cardinality({p \in Procs : Executing(p)}) <= 1
          /\ Cardinality({p \in Procs : InFlight(p)}) <= 1)
    /\ [][mgrVars' # mgrVars =>
            \E p \in Procs : /\ lock' = p /\ lock \in {0, p}
                             /\ Executing(p)' /\ call'[p] # call[p]
                             /\ \A q \in Procs \ {p} : ~Executing(q)]_vars

C14_Witness ==
    \E p, q \in Procs :
        /\ p # q /\ pc[p] = "login" /\ lock = p
        /\ pc[q] = "wait" /\ op[q] = OpStakeWise_GetVaults

\* C16: while a business request is in flight the session token is the one
\* that was attached to it, and no other caller is between the nonce step and
\* the completion of a login.
C16_CoherentToken ==
    \A p \in Procs :
        /\ pc[p] = "req1" => call[p].firstToken = sessionToken
        /\ pc[p] = "req2" => call[p].secondToken = sessionToken
        /\ pc[p] \in {"req1", "req2"} =>
              \A q \in Procs \ {p} : pc[q] \notin {"nonce", "login"}

C16_Witness ==
    \E p, q \in Procs :
        /\ p # q /\ pc[p] = "req2" /\ call[p].secondToken.kind = "sess"
        /\ pc[q] = "wait" /\ op[q] = OpLogin

\* A login of caller p has returned and nothing has been stored since
LoginReturned(p) == pc[p] \in {"ret", "req2"} /\ call[p].loginErr # None

\* C18: a login whose login request is answered with unregistered-node leaves
\* the cached status at Unregistered, whatever it was, and returns no error.
C18_UnregisteredIsNotAnError ==
    \A p \in Procs :
        (LoginReturned(p) /\ call[p].loginReqErr = ErrUnregisteredNode)
        => /\ call[p].loginErr = Nil
           /\ nodeRegistrationStatus = Unregistered
           /\ op[p] \in {OpGetRegistrationStatus, OpLogin} => call[p].err = Nil
           /\ op[p] = OpGetRegistrationStatus => call[p].ret = Unregistered

C18_Witness ==
    \E p \in Procs :
        /\ AtRet(p, OpLogin) /\ call[p].entryStatus = NoWallet
        /\ call[p].loginReqErr = ErrUnregisteredNode
        /\ call[p].err = Nil /\ nodeRegistrationStatus = Unregistered

\* C19: the cached status becomes Registered only in the step that ends a
\* login whose nonce request succeeded and whose login request, sent after it
\* with that nonce, succeeded; after that step the session token is the token
\* of the login response; and every login that ends so leaves Registered.
C19_RegisteredOnlyByLogin ==
    [][/\ (nodeRegistrationStatus' = Registered /\ nodeRegistrationStatus # Registered) =>
            \E p \in Procs :
                /\ pc[p] = "login" /\ lock = p
                /\ call[p].loginRuns = 1 /\ call[p].nonces = 1 /\ call[p].logins = 1
                /\ call[p].nonceErr = Nil /\ call[p].loginReqErr = None
                /\ sessionToken = NonceToken(call[p].nonce)
                /\ call'[p].loginReqErr = Nil /\ call'[p].loginErr = Nil
                /\ sessionToken' = LoginToken(call[p].nonce)
       /\ \A p \in Procs :
            (pc[p] = "login" /\ call'[p].loginReqErr = Nil) =>
                (nodeRegistrationStatus' = Registered /\ sessionToken' = LoginToken(call[p].nonce))]_vars

C19_Witness ==
    \E p \in Procs :
        /\ pc[p] = "ret" /\ call[p].entryStatus = Unregistered
        /\ call[p].loginReqErr = Nil /\ nodeRegistrationStatus = Registered
        /\ sessionToken = LoginToken(call[p].nonce)

\* C20: a login whose login request fails with an error other than
\* wallet-not-loaded and unregistered-node returns that error and leaves the
\* cached status Unknown, except that Unregistered or Registered is kept; one
\* that fails with wallet-not-loaded returns it and leaves NoWallet.
C20_LoginRequestErrors ==
    \A p \in Procs :
        /\ (LoginReturned(p) /\ call[p].loginReqErr \in {ErrTransport, ErrInvalidSession})
            => /\ call[p].loginErr = call[p].loginReqErr
               /\ call[p].err = call[p].loginReqErr
               /\ nodeRegistrationStatus =
                    IF call[p].entryStatus \in Known THEN call[p].entryStatus ELSE Unknown
        /\ (LoginReturned(p) /\ call[p].loginReqErr = ErrWalletNotLoaded)
            => /\ call[p].loginErr = ErrWalletNotLoaded
               /\ call[p].err = ErrWalletNotLoaded
               /\ nodeRegistrationStatus = NoWallet

C20_Witness ==
    \E p \in Procs :
        /\ pc[p] = "ret" /\ call[p].entryStatus = NoWallet
        /\ call[p].loginReqErr = ErrInvalidSession /\ nodeRegistrationStatus = Unknown

\* C15: when every caller has invoked a domain operation while the session
\* token is stale (wallet ready, node registered, quiet environment), the
\* service is asked for one nonce in all, so one login sub-protocol is run
\* across all callers, it is run inside the first operation to complete, and
\* every domain operation returns without error.
C15_OneLoginForAllCallers ==
    /\ nextToken \in {2, 3}
    /\ \A p \in Procs : call[p].loginRuns = call[p].nonces /\ call[p].nonces >= call[p].logins
    /\ \A p \in Procs :
         AtRet(p, OpStakeWise_GetVaults) =>
            /\ call[p].err = Nil
            /\ nextToken = 3
            /\ sessionToken = LoginToken(2) /\ remoteSession = 2
            /\ call[p].loginRuns = 0 => call[p].firstToken = LoginToken(2)

C15_Witness ==
    \E p, q \in Procs :
        /\ p # q
        /\ AtRet(p, OpStakeWise_GetVaults) /\ call[p].loginRuns = 0 /\ call[p].err = Nil
        /\ call[p].entryStatus = Registered /\ call[p].entryToken = LoginToken(2)
        /\ pc[q] = "idle" /\ nextToken = 3

\* C17: a caller that leaves a public method leaves the mutex unlocked; hence,
\* every remote call returning, every caller blocked in Lock() acquires it.
C17_LockReleasedOnEveryPath ==
    /\ [][\A p \in Procs : (Executing(p) /\ ~Executing(p)') => (lock = p /\ lock' = 0)]_vars
    /\ \A p \in Procs : (pc[p] = "wait") ~> (lock = p)

C17_Witness ==
    \E p, q \in Procs :
        /\ p # q /\ pc[p] = "ret" /\ lock = p /\ call[p].err = Panicked
        /\ pc[q] = "wait"

\* C21: the provisional token stored after a successful nonce request is not
\* the session token once the login run has ended, whether the login request
\* succeeded or failed; and the session token changes only when a nonce
\* response is stored or a login succeeds.
C21_ProvisionalTokenOverwritten ==
    [][/\ \A p \in Procs :
            (call[p].loginErr = None /\ call'[p].loginErr # None /\ call'[p].nonceErr = Nil)
                => sessionToken' # NonceToken(call'[p].nonce)
       /\ sessionToken' # sessionToken =>
            \E p \in Procs :
                \/ pc[p] = "nonce" /\ call'[p].nonceErr = Nil /\ sessionToken' = NonceToken(call'[p].nonce)
                \/ pc[p] = "login" /\ call'[p].loginReqErr = Nil /\ sessionToken' = LoginToken(call[p].nonce)]_vars

\* C22: a login whose nonce request fails returns an error without sending a
\* login request, leaves the session token as it was when the login started,
\* and leaves the cached status Unknown, except that Unregistered or
\* Registered is kept.
C22_NonceFailureAborts ==
    \A p \in Procs :
        (LoginReturned(p) /\ call[p].nonceErr = ErrTransport)
        => /\ pc[p] = "ret"
           /\ call[p].loginErr = ErrTransport /\ call[p].err = ErrTransport
           /\ call[p].logins = 0 /\ call[p].loginReqErr = None
           /\ sessionToken = call[p].entryToken
           /\ nodeRegistrationStatus =
                IF call[p].entryStatus \in Known THEN call[p].entryStatus ELSE Unknown

C22_Witness ==
    \E p \in Procs :
        /\ pc[p] = "ret" /\ call[p].nonceErr = ErrTransport
        /\ call[p].entryStatus = NoWallet /\ nodeRegistrationStatus = Unknown
        /\ call[p].entryToken.kind = "prov" /\ sessionToken = call[p].entryToken

\* C23: a RegisterNode that takes the lock while the wallet is not loaded
\* returns RegistrationResult_Unknown with an error, has sent no request, and
\* leaves the session token and the cached status as they were.
C23_RegisterNeedsLoadedWallet ==
    [][\A p \in Procs :
        (pc[p] = "wait" /\ op[p] = OpRegisterNode /\ pc'[p] # "wait" /\ ~wallet.IsLoaded)
        => /\ pc'[p] = "ret"
           /\ call'[p].ret = RegistrationResult_Unknown
           /\ call'[p].err \in {ErrRegisterNoWallet, ErrWalletStatus}
           /\ Requests(call'[p]) = 0
           /\ sessionToken' = sessionToken /\ sessionToken' = call'[p].entryToken
           /\ nodeRegistrationStatus' = nodeRegistrationStatus
           /\ nodeRegistrationStatus' = call'[p].entryStatus
           /\ remoteRegistered' = remoteRegistered]_vars

C23_Witness ==
    \E p \in Procs :
        /\ AtRet(p, OpRegisterNode) /\ call[p].err = ErrRegisterNoWallet
        /\ call[p].ret = RegistrationResult_Unknown /\ Requests(call[p]) = 0
        /\ ~wallet.IsLoaded /\ nodeRegistrationStatus = Registered /\ sessionToken.kind = "sess"

\* C24: RegisterNode returns (AlreadyRegistered, nil) exactly when the service
\* answered already-registered, (NotWhitelisted, nil) exactly when it answered
\* not-whitelisted, (Success, nil) exactly when the request succeeded, and
\* (Unknown, error) for every other failure, local or remote.
C24_RegisterResultMapping ==
    \A p \in Procs :
        AtRet(p, OpRegisterNode) =>
            LET c == call[p] IN
            /\ (c.ret = RegistrationResult_AlreadyRegistered /\ c.err = Nil) <=> c.registerErr = ErrAlreadyRegistered
            /\ (c.ret = RegistrationResult_NotWhitelisted /\ c.err = Nil) <=> c.registerErr = ErrNotWhitelisted
            /\ (c.ret = RegistrationResult_Success /\ c.err = Nil) <=> c.registerErr = Nil
            /\ c.registerErr \notin {ErrAlreadyRegistered, ErrNotWhitelisted, Nil}
                 => /\ c.ret = RegistrationResult_Unknown
                    /\ c.err \in {ErrTransport, ErrWalletStatus, ErrRegisterNoWallet}
                    /\ c.registerErr = None <=> c.registers = 0
            /\ c.registerErr = Nil => remoteRegistered

C24_Witness ==
    \E p, q \in Procs :
        /\ AtRet(p, OpRegisterNode) /\ call[p].registerErr = ErrAlreadyRegistered
        /\ call[p].ret = RegistrationResult_AlreadyRegistered /\ call[p].err = Nil
        /\ pc[q] = "wait" /\ op[q] = OpRegisterNode

\* C25: with the wallet loaded and the address whitelisted, the first
\* RegisterNode the service answers returns (Success, nil) and every later one
\* it answers returns (AlreadyRegistered, nil), whatever GetRegistrationStatus
\* and Login calls ran before, between or while the callers waited.
C25_RegisterTwice ==
    [][\A p \in Procs :
        (pc[p] = "register" /\ pc'[p] = "ret" /\ remoteWhitelisted
            /\ call'[p].registerErr # ErrTransport)
        => /\ call'[p].err = Nil
           /\ call'[p].ret = IF everRegistered THEN RegistrationResult_AlreadyRegistered
                             ELSE RegistrationResult_Success
           /\ everRegistered']_vars

C25_Witness ==
    \E p, q \in Procs :
        /\ AtRet(p, OpRegisterNode) /\ call[p].ret = RegistrationResult_AlreadyRegistered
        /\ call[p].err = Nil /\ everRegistered /\ wallet.IsLoaded
        /\ nodeRegistrationStatus = Registered
        /\ pc[q] = "wait" /\ op[q] = OpLogin

\* C26 (as claimed): after a RegisterNode whose node-address request failed,
\* the cached status is Unknown.
C26_RegisterFailureLeavesUnknown ==
    \A p \in Procs :
        (AtRet(p, OpRegisterNode) /\ call[p].registerErr \notin {None, Nil})
        => nodeRegistrationStatus = Unknown

\* C26 (amended): after a RegisterNode whose node-address request failed, the
\* cached status is Unknown, except that a status that was Unregistered or
\* Registered is kept.
C26_RegisterFailureLeavesUnknownUnlessKnown ==
    \A p \in Procs :
        (AtRet(p, OpRegisterNode) /\ call[p].registerErr \notin {None, Nil})
        => nodeRegistrationStatus =
             IF call[p].entryStatus \in Known THEN call[p].entryStatus ELSE Unknown

C26_Witness ==
    \E p \in Procs :
        /\ AtRet(p, OpRegisterNode) /\ call[p].registerErr = ErrNotWhitelisted
        /\ call[p].entryStatus = Unregistered /\ nodeRegistrationStatus = Unregistered

\* C28: a domain operation returns a nil error only if the last execution of
\* its request succeeded; when the re-login returned an error it returns an
\* error of that class, and otherwise it returns the class of the error of
\* the last execution of the request.
C28_ErrorsPropagate ==
    \A p \in Procs :
        AtRet(p, OpStakeWise_GetVaults) =>
            LET c == call[p]
                last == IF c.reqs = 2 THEN c.secondErr ELSE c.firstErr IN
            /\ c.reqs \in {1, 2} /\ last # None
            /\ c.err = Nil => last = Nil
            /\ c.loginErr \notin {None, Nil} => (c.reqs = 1 /\ c.err = c.loginErr)
            /\ c.loginErr \in {None, Nil} => c.err = last

C28_Witness ==
    \E p \in Procs :
        /\ AtRet(p, OpStakeWise_GetVaults) /\ call[p].reqs = 2
        /\ call[p].loginErr = Nil /\ call[p].secondErr = ErrBusiness /\ call[p].err = ErrBusiness

\* The errors of its business operation each domain handler recognises, with
\* the flag of the response that stands for each
Recognised ==
    {<<GetVaults, ErrInvalidPermissions, "InvalidPermissions">>,
     <<GetValidatorManagerSignature, ErrVaultNotFound, "VaultNotFound">>,
     <<GetValidatorManagerSignature, ErrInvalidPermissions, "InvalidPermissions">>,
     <<GetValidatorManagerSignature, ErrDepositRootAlreadyAssigned, "DepositRootAlreadyUsed">>,
     <<GetRegistrationSignature, ErrNodeUnauthorized, "NotAuthorized">>,
     <<GetRegistrationSignature, ErrInvalidPermissions, "InvalidPermissions">>,
     <<GetRegistrationSignature, ErrIncorrectNodeAddress, "IncorrectNodeAddress">>}

\* A domain handler has built its response
DomainDone(p) == api[p].stage = "done" /\ api[p].handler \in DomainHandlers

\* C27: in a domain handler, an error of the business operation that the
\* handler recognises sets its own flag and nothing else, leaves the payload
\* unset and is answered ResponseStatus_Success with a nil error; any other
\* error is answered ResponseStatus_Error with that error and no flag; so a
\* response carries at most one flag, and a payload only without a flag.
C27_RecognisedErrorsBecomeFlags ==
    \A p \in Procs :
        DomainDone(p) =>
            LET r == api[p]
                own == {t \in Recognised : t[1] = r.handler /\ t[2] = r.businessErr} IN
            /\ Cardinality(r.flags) <= 1
            /\ r.payload => (r.flags = {} /\ r.businessErr = Nil)
            /\ r.businessCalls = 1 =>
                /\ own # {} =>
                    /\ \A t \in own : r.flags = {t[3]}
                    /\ ~r.payload
                    /\ r.responseStatus = ResponseStatus_Success /\ r.responseErr = Nil
                /\ (own = {} /\ r.businessErr # Nil) =>
                    /\ r.flags = {} /\ ~r.payload
                    /\ r.responseStatus = ResponseStatus_Error /\ r.responseErr = r.businessErr
                /\ r.businessErr = Nil =>
                    /\ r.payload /\ r.responseStatus = ResponseStatus_Success /\ r.responseErr = Nil

C27_Witness ==
    \E p \in Procs :
        /\ DomainDone(p) /\ api[p].handler = GetValidatorManagerSignature
        /\ api[p].businessErr = ErrDepositRootAlreadyAssigned
        /\ api[p].flags = {"DepositRootAlreadyUsed"} /\ ~api[p].payload
        /\ api[p].responseStatus = ResponseStatus_Success

\* C29: get-registration-status always answers ResponseStatus_Success with a
\* nil error; its Status is the status the manager returned and its
\* ErrorMessage is set exactly when that status is Unknown and the manager
\* returned an error; a NoWallet of the manager reaches the API caller as
\* NoWallet without an error message.
C29_StatusHandlerNeverFails ==
    \A p \in Procs :
        (api[p].stage = "done" /\ api[p].handler = GetStatus) =>
            LET r == api[p] IN
            /\ r.responseStatus = ResponseStatus_Success /\ r.responseErr = Nil
            /\ r.statusCalls = 1 /\ r.businessCalls = 0
            /\ r.Status = r.ret /\ r.Status \in NodeSetRegistrationStatus
            /\ r.ErrorMessage # "" <=> (r.ret = Unknown /\ r.err # Nil)
            /\ r.ErrorMessage # "" => r.ErrorMessage = r.err
            /\ r.ret = NoWallet => (r.Status = NoWallet /\ r.ErrorMessage = "")

C29_Witness ==
    \E p \in Procs :
        /\ api[p].stage = "done" /\ api[p].handler = GetStatus
        /\ api[p].ret = NoWallet /\ api[p].err = ErrWalletNotInitialized
        /\ api[p].Status = NoWallet /\ api[p].ErrorMessage = ""
        /\ api[p].responseStatus = ResponseStatus_Success /\ ~wallet.IsLoaded

\* C30: a domain handler calls the business operation of the manager only
\* after RequireWalletReady and then RequireRegisteredWithNodeSet have
\* returned nil in the same request, the latter on a Registered status; a
\* wallet that is not ready is answered ResponseStatus_WalletNotReady with the
\* error, an unregistered node with the NotRegistered flag and
\* ResponseStatus_Success, and in both cases the business operation is not called.
C30_RequirementsBeforeBusiness ==
    /\ [][\A p \in Procs :
            api'[p].businessCalls > api[p].businessCalls =>
                /\ api[p].stage = "requireRegistered" /\ api[p].businessCalls = 0
                /\ api[p].requireWalletReady = Nil /\ api[p].statusCalls = 1
                /\ api[p].ret = Registered /\ api[p].err = Nil
                /\ api'[p].requireRegisteredWithNodeSet = Nil
                /\ pc'[p] = "wait" /\ op'[p] = OpStakeWise_GetVaults]_vars
    /\ [](\A p \in Procs :
            /\ (op[p] = OpStakeWise_GetVaults /\ pc[p] # "idle") =>
                /\ api[p].stage = "business" /\ api[p].businessCalls = 1
                /\ api[p].requireWalletReady = Nil /\ api[p].requireRegisteredWithNodeSet = Nil
            /\ (DomainDone(p) /\ api[p].requireWalletReady # Nil) =>
                /\ api[p].responseStatus = ResponseStatus_WalletNotReady
                /\ api[p].responseErr = api[p].requireWalletReady
                /\ api[p].statusCalls = 0 /\ api[p].businessCalls = 0
            /\ (DomainDone(p) /\ api[p].requireRegisteredWithNodeSet = ErrNotRegisteredWithNodeSet) =>
                /\ api[p].flags = {"NotRegistered"} /\ ~api[p].payload
                /\ api[p].responseStatus = ResponseStatus_Success /\ api[p].responseErr = Nil
                /\ api[p].businessCalls = 0)

C30_Witness ==
    \E p, q \in Procs :
        /\ DomainDone(p) /\ api[p].requireWalletReady = ErrNoKeystore
        /\ api[p].responseStatus = ResponseStatus_WalletNotReady
        /\ api[q].stage = "business" /\ pc[q] = "req2"

\* The step in which RequireRegisteredWithNodeSet of caller p returns
RequireRegisteredReturns(p) ==
    /\ api[p].stage = "requireRegistered" /\ api[p].returned
    /\ ~api'[p].returned

\* C31 (as claimed): RequireRegisteredWithNodeSet returns nil when the status
\* the manager returned is Registered, ErrNotRegisteredWithNodeSet when it is
\* Unregistered, ErrWalletNotReady when it is NoWallet, and the unknown-status
\* error otherwise.
C31_ResultByStatusAlone ==
    [][\A p \in Procs :
        RequireRegisteredReturns(p) =>
            api'[p].requireRegisteredWithNodeSet =
                CASE api[p].ret = Registered -> Nil
                  [] api[p].ret = Unregistered -> ErrNotRegisteredWithNodeSet
                  [] api[p].ret = NoWallet -> ErrWalletNotReady
                  [] OTHER -> ErrUnknownStatus]_vars

\* C31 (amended): RequireRegisteredWithNodeSet returns the error of
\* GetRegistrationStatus when there is one, and that is the case whenever the
\* status is NoWallet or Unknown; otherwise it returns nil for Registered and
\* ErrNotRegisteredWithNodeSet for Unregistered. It never returns
\* ErrWalletNotReady or the unknown-status error.
C31_ManagerErrorFirst ==
    [][\A p \in Procs :
        RequireRegisteredReturns(p) =>
            LET e == api'[p].requireRegisteredWithNodeSet IN
            /\ api[p].err # Nil => e = api[p].err
            /\ api[p].ret \in {NoWallet, Unknown} => (api[p].err # Nil /\ e = api[p].err)
            /\ (api[p].err = Nil /\ api[p].ret = Registered) => e = Nil
            /\ (api[p].err = Nil /\ api[p].ret = Unregistered) => e = ErrNotRegisteredWithNodeSet
            /\ e \notin {ErrWalletNotReady, ErrUnknownStatus}]_vars

C31_Witness ==
    \E p \in Procs :
        /\ api[p].stage = "done" /\ api[p].handler \in DomainHandlers
        /\ api[p].ret = NoWallet /\ api[p].err = ErrWalletNotInitialized
        /\ api[p].requireRegisteredWithNodeSet = ErrWalletNotInitialized
        /\ api[p].businessCalls = 0

\* ------------------------------------------- WaitForNodeSetRegistration
\* WaitForNodeSetRegistration is called with a context that has a logger: the
\* first iteration calls ns.GetRegistrationStatus
WaitForNodeSetRegistration(p) ==
    /\ pc[p] = "idle" /\ waiter[p].stage = "none"
    /\ waiter' = [waiter EXCEPT ![p] = [@ EXCEPT !.stage = "status", !.calls = 1]]
    /\ pc' = [pc EXCEPT ![p] = "wait"]
    /\ op' = [op EXCEPT ![p] = OpGetRegistrationStatus]
    /\ UNCHANGED <<mgrVars, lock, wallet, remoteVars, call, everRegistered, walletEverLoaded, api, cfg, lastCall, ready>>

\* The message the loop logs for a status other than Registered; err.Error()
\* stands for the text of the error
WaitMessage(status, err) ==
    IF status = NoWallet THEN "Can't check NodeSet registration status until node has a wallet"
    ELSE IF status = Unregistered THEN "Not registered with NodeSet yet"
    ELSE IF status = Unknown THEN err
    ELSE ""

\* The loop that returns false on whatever status the manager returns
WaitForNodeSetRegistration_Status_AnyStatus(p) ==
    /\ waiter[p].stage = "status"
    /\ Return(p)
    /\ waiter' = [waiter EXCEPT ![p] =
           [@ EXCEPT !.status = call[p].ret, !.err = call[p].err, !.stage = "done", !.ret = FALSE]]
    /\ UNCHANGED <<api, cfg, lastCall, ready>>

\* ns.GetRegistrationStatus returns to the loop: the iteration up to its
\* SleepWithCancel, or the return of false
WaitForNodeSetRegistration_Status(p) ==
    /\ waiter[p].stage = "status"
    /\ Return(p)
    /\ LET status == call[p].ret
           err == call[p].err
           w == [waiter[p] EXCEPT !.status = status, !.err = err] IN
       waiter' = [waiter EXCEPT ![p] =
           IF status = Registered THEN
               [w EXCEPT !.stage = "done", !.ret = FALSE, !.sawRegistered = TRUE]
           ELSE IF status = Unknown /\ err = Nil THEN
               \* err.Error() on a nil error: the goroutine panics
               [w EXCEPT !.stage = "done", !.nilError = TRUE]
           ELSE
               [w EXCEPT !.stage = "sleep", !.msg = WaitMessage(status, err)]]
    /\ UNCHANGED <<api, cfg, lastCall, ready>>

\* SleepWithCancel returns true: the context is done, the loop returns true
SleepWithCancel_Cancelled(p) ==
    /\ waiter[p].stage = "sleep" /\ waiter[p].ctxDone
    /\ waiter' = [waiter EXCEPT ![p] = [@ EXCEPT !.stage = "done", !.ret = TRUE, !.sawCancel = TRUE]]
    /\ UNCHANGED <<mgrVars, lock, wallet, remoteVars, pc, op, call, everRegistered, walletEverLoaded,
                   api, cfg, lastCall, ready>>

\* SleepWithCancel that returns true when the interval has passed
SleepWithCancel_TrueOnTimer(p) ==
    /\ waiter[p].stage = "sleep"
    /\ waiter' = [waiter EXCEPT ![p] = [@ EXCEPT !.stage = "done", !.ret = TRUE]]
    /\ UNCHANGED <<mgrVars, lock, wallet, remoteVars, pc, op, call, everRegistered, walletEverLoaded,
                   api, cfg, lastCall, ready>>

\* SleepWithCancel returns false: the interval has passed, the next iteration
\* calls ns.GetRegistrationStatus
SleepWithCancel_Timer(p) ==
    /\ waiter[p].stage = "sleep"
    /\ waiter' = [waiter EXCEPT ![p] =
           [@ EXCEPT !.stage = "status", !.msg = "", !.calls = 1, !.repeated = TRUE]]
    /\ pc' = [pc EXCEPT ![p] = "wait"]
    /\ op' = [op EXCEPT ![p] = OpGetRegistrationStatus]
    /\ UNCHANGED <<mgrVars, lock, wallet, remoteVars, call, everRegistered, walletEverLoaded, api, cfg, lastCall, ready>>

\* The context of a running loop is cancelled
CancelContext(p) ==
    /\ waiter[p].stage \in {"status", "sleep"} /\ ~waiter[p].ctxDone
    /\ waiter' = [waiter EXCEPT ![p] = [@ EXCEPT !.ctxDone = TRUE]]
    /\ UNCHANGED <<mgrVars, lock, wallet, remoteVars, pc, op, call, everRegistered, walletEverLoaded,
                   api, cfg, lastCall, ready>>

\* A request sent with a context that is done fails
CtxStep(p) ==
    waiter[p].ctxDone =>
        /\ call'[p].nonceErr # Nil
        /\ call'[p].loginReqErr # Nil

\* A caller that is not in the loop
Outside(p) == waiter[p].stage = "none"

\* The daemon with tasks that wait for the registration while other callers
\* use the manager. It starts with a new manager, with or without a wallet.
InitWait ==
    /\ sessionToken = NoToken
    /\ nodeRegistrationStatus = Unknown
    /\ lock = 0
    /\ wallet \in {WalletReady, WalletNone}
    /\ remoteWhitelisted \in BOOLEAN
    /\ remoteRegistered = FALSE
    /\ remoteSession = 0
    /\ nextToken = 1
    /\ pc = [p \in Procs |-> "idle"]
    /\ op = [p \in Procs |-> None]
    /\ call = [p \in Procs |-> EmptyCall]
    /\ everRegistered = FALSE
    /\ walletEverLoaded = wallet.IsLoaded
    /\ api = [p \in Procs |-> NoRequest]
    /\ waiter = [p \in Procs |-> NoWait]
    /\ cfg = NewHyperdriveConfig
    /\ lastCall = NoCall
    /\ ready = NoChecks

NextWait ==
    \/ \E p \in Procs : WaitForNodeSetRegistration(p)
    \/ \E p \in Procs : GetRegistrationStatus(p) /\ UNCHANGED daemonVars
    \/ \E p \in Procs : NonceResponse(p) /\ CtxStep(p) /\ UNCHANGED daemonVars
    \/ \E p \in Procs : LoginResponse(p) /\ CtxStep(p) /\ UNCHANGED daemonVars
    \/ \E p \in Procs : WaitForNodeSetRegistration_Status(p)
    \/ \E p \in Procs : SleepWithCancel_Cancelled(p)
    \/ \E p \in Procs : SleepWithCancel_Timer(p)
    \/ \E p \in Procs : CancelContext(p)
    \/ \E p \in Procs : Outside(p) /\ Invoke(p) /\ op'[p] = OpRegisterNode /\ UNCHANGED daemonVars
    \/ \E p \in Procs : RegisterNode(p) /\ UNCHANGED daemonVars
    \/ \E p \in Procs : RegisterNodeResponse(p) /\ UNCHANGED daemonVars
    \/ \E p \in Procs : Outside(p) /\ Return(p) /\ UNCHANGED daemonVars

\* Every remote call returns and the code after it runs, the interval of a
\* sleep passes, and a goroutine blocked in Lock() gets the mutex
FairnessWait ==
    /\ \A p \in Procs : WF_vars((NonceResponse(p) \/ LoginResponse(p)) /\ CtxStep(p) /\ UNCHANGED daemonVars)
    /\ \A p \in Procs : WF_vars(WaitForNodeSetRegistration_Status(p))
    /\ \A p \in Procs : WF_vars(SleepWithCancel_Timer(p) \/ SleepWithCancel_Cancelled(p))
    /\ \A p \in Procs : WF_vars((RegisterNodeResponse(p) \/ (Outside(p) /\ Return(p))) /\ UNCHANGED daemonVars)
    /\ \A p \in Procs : SF_vars((GetRegistrationStatus(p) \/ RegisterNode(p)) /\ UNCHANGED daemonVars)

SpecWait == InitWait /\ [][NextWait]_vars /\ FairnessWait

\* C32: GetRegistrationStatus returns an error exactly when the status it
\* returns is Unknown or NoWallet; so the loop of WaitForNodeSetRegistration
\* never calls Error() on a nil error: in its Unknown branch the error is set
\* and its text is the message.
C32_ErrorIffUnknownOrNoWallet ==
    \A p \in Procs :
        /\ AtRet(p, OpGetRegistrationStatus) =>
            (call[p].err # Nil <=> call[p].ret \in {Unknown, NoWallet})
        /\ ~waiter[p].nilError
        /\ waiter[p].status # None =>
            (waiter[p].err # Nil <=> waiter[p].status \in {Unknown, NoWallet})
        /\ (waiter[p].stage = "sleep" /\ waiter[p].status = Unknown) =>
            (waiter[p].err # Nil /\ waiter[p].msg = waiter[p].err)

C32_Witness ==
    \E p \in Procs :
        /\ waiter[p].stage = "sleep" /\ waiter[p].status = Unknown
        /\ waiter[p].err = ErrTransport /\ waiter[p].msg = ErrTransport
        /\ ~waiter[p].nilError

\* C33: WaitForNodeSetRegistration returns false only after a call of
\* GetRegistrationStatus returned Registered, and true only after
\* SleepWithCancel found the context cancelled; it returns at the first
\* cancellation it finds; each iteration makes one call of
\* GetRegistrationStatus, and the loop makes no other.
C33_WaitReturns ==
    /\ [](\A p \in Procs :
            /\ (waiter[p].stage = "done" /\ ~waiter[p].ret) =>
                (waiter[p].sawRegistered /\ waiter[p].status = Registered /\ ~waiter[p].sawCancel)
            /\ (waiter[p].stage = "done" /\ waiter[p].ret) =>
                (waiter[p].sawCancel /\ waiter[p].ctxDone /\ waiter[p].status # Registered)
            /\ (waiter[p].sawCancel \/ waiter[p].sawRegistered) => waiter[p].stage = "done"
            /\ waiter[p].stage \in {"status", "sleep"} => waiter[p].calls = 1
            /\ waiter[p].stage = "status" <=> (waiter[p].stage # "none" /\ pc[p] # "idle")
            /\ waiter[p].stage = "status" => op[p] = OpGetRegistrationStatus)
    /\ [][\A p \in Procs :
            /\ (waiter[p].stage # "status" /\ waiter'[p].stage = "status") =>
                /\ pc[p] = "idle" /\ pc'[p] = "wait" /\ op'[p] = OpGetRegistrationStatus
                /\ waiter[p].stage \in {"none", "sleep"}
            /\ (waiter[p].stage # "none" /\ pc[p] = "idle" /\ pc'[p] # "idle") =>
                (waiter[p].stage = "sleep" /\ waiter'[p].stage = "status")
            /\ (waiter[p].stage = "sleep" /\ waiter'[p].stage = "done") =>
                (waiter[p].ctxDone /\ waiter'[p].ret)
            /\ (waiter[p].stage = "status" /\ waiter'[p].stage = "done") =>
                (call[p].ret = Registered /\ ~waiter'[p].ret)]_vars

C33_Witness ==
    \E p, q \in Procs :
        /\ waiter[p].stage = "done" /\ ~waiter[p].ret /\ waiter[p].sawRegistered
        /\ waiter[p].repeated
        /\ waiter[q].stage = "done" /\ waiter[q].ret /\ waiter[q].sawCancel
        /\ waiter[q].status = Unknown /\ waiter[q].repeated

\* The service answers every request of the manager: no request in flight has
\* failed in transport, and the service still issues nonces
Reachable ==
    /\ nextToken <= MaxTokens
    /\ \A q \in Procs :
        /\ call[q].nonceErr # ErrTransport
        /\ call[q].loginReqErr \notin {ErrTransport, ErrInvalidSession}
        /\ call[q].registerErr # ErrTransport
        /\ call[q].loginErr # ErrWalletStatus

\* C34 (as claimed): with a ready wallet, a service that stays reachable and a
\* context that is never cancelled, a loop that is waiting when the node is
\* registered at the service eventually returns false.
C34_WaitEventuallyReturnsFalse ==
    \A p \in Procs :
        ([](wallet = WalletReady) /\ []Reachable /\ [](~waiter[p].ctxDone))
            => ((waiter[p].stage = "sleep" /\ remoteRegistered)
                    ~> (waiter[p].stage = "done" /\ ~waiter[p].ret))

\* C35: when the login that runRequest runs after an invalid session is
\* answered unregistered-node, the login returns no error; the request is then
\* executed a second and last time, with the token of the nonce response as
\* session token and Unregistered as cached status, and the caller gets the
\* outcome of that execution.
C35_RetryAfterUnregisteredLogin ==
    \A p \in Procs :
        (op[p] = OpStakeWise_GetVaults /\ call[p].loginReqErr = ErrUnregisteredNode) =>
            /\ call[p].loginErr = Nil /\ call[p].firstErr = ErrInvalidSession
            /\ pc[p] \in {"req2", "ret"}
            /\ call[p].reqs = 2 /\ call[p].loginRuns = 1
            /\ call[p].secondToken = NonceToken(call[p].nonce)
            /\ sessionToken = NonceToken(call[p].nonce)
            /\ nodeRegistrationStatus = Unregistered
            /\ pc[p] = "ret" => (call[p].secondErr # None /\ call[p].err = call[p].secondErr)

C35_Witness ==
    \E p \in Procs :
        /\ AtRet(p, OpStakeWise_GetVaults) /\ call[p].loginReqErr = ErrUnregisteredNode
        /\ call[p].reqs = 2 /\ call[p].secondToken.kind = "prov"
        /\ call[p].err = call[p].secondErr /\ call[p].err = ErrInvalidSession
        /\ nodeRegistrationStatus = Unregistered

\* C36: no operation of the manager waits for the lock while it holds it:
\* the caller that holds the lock is past Lock() and inside its method, where
\* its next step (the answer to its request, or its return) can be taken, and
\* a caller acquires the lock only from its own Lock(), when the lock is free.
C36_NoSelfDeadlock ==
    /\ [](\A p \in Procs :
            lock = p => (pc[p] \notin {"idle", "wait"} /\ ENABLED Proceed(p)))
    /\ [][\A p \in Procs :
            (lock' = p /\ lock # p) => (lock = 0 /\ pc[p] = "wait" /\ pc'[p] # "wait")]_vars

C36_Witness ==
    \E p, q \in Procs :
        /\ lock = p /\ pc[p] = "login" /\ op[p] = OpGetRegistrationStatus
        /\ call[p].loginRuns = 1
        /\ q # p /\ pc[q] = "wait"

\* ------------------------------- StakeWise_GetValidatorManagerSignature
\* Longest list of deposit data and of exit messages passed
MaxLen == 2

\* "deposit data and exit messages lengths don't match"
ErrLengthsDontMatch == "ErrLengthsDontMatch"

\* A caller calls StakeWise_GetValidatorManagerSignature and blocks on m.lock.Lock()
Invoke_GetValidatorManagerSignature(p) ==
    /\ pc[p] = "idle"
    /\ op' = [op EXCEPT ![p] = OpStakeWise_GetValidatorManagerSignature]
    /\ pc' = [pc EXCEPT ![p] = "wait"]
    /\ UNCHANGED <<mgrVars, lock, wallet, remoteVars, call, everRegistered, walletEverLoaded>>

\* StakeWise_GetValidatorManagerSignature without the validation of the lengths
StakeWise_GetValidatorManagerSignature_NoValidation(p) ==
    /\ pc[p] = "wait" /\ op[p] = OpStakeWise_GetValidatorManagerSignature
    /\ lock = 0
    /\ lock' = p
    /\ \E nd \in 0 .. MaxLen, ne \in 0 .. MaxLen :
        /\ call' = [call EXCEPT ![p] =
               [Entered EXCEPT !.depositData = nd, !.encryptedExitMessages = ne,
                               !.reqs = 1, !.firstToken = sessionToken]]
        /\ pc' = [pc EXCEPT ![p] = "req1"]
    /\ UNCHANGED <<mgrVars, wallet, remoteVars, op, everRegistered, walletEverLoaded>>

\* StakeWise_GetValidatorManagerSignature: lock, validation of the lengths,
\* then runRequest sends Validators_Post with the current token
StakeWise_GetValidatorManagerSignature(p) ==
    /\ pc[p] = "wait" /\ op[p] = OpStakeWise_GetValidatorManagerSignature
    /\ lock = 0
    /\ lock' = p
    /\ \E nd \in 0 .. MaxLen, ne \in 0 .. MaxLen :
        LET c == [Entered EXCEPT !.depositData = nd, !.encryptedExitMessages = ne] IN
        IF nd # ne THEN
            /\ call' = [call EXCEPT ![p] = [c EXCEPT !.ret = "", !.err = ErrLengthsDontMatch]]
            /\ pc' = [pc EXCEPT ![p] = "ret"]
        ELSE
            /\ call' = [call EXCEPT ![p] = [c EXCEPT !.reqs = 1, !.firstToken = sessionToken]]
            /\ pc' = [pc EXCEPT ![p] = "req1"]
    /\ UNCHANGED <<mgrVars, wallet, remoteVars, op, everRegistered, walletEverLoaded>>

\* The callers ask for validator manager signatures while sessions expire and
\* the wallet may be removed
NextSignature ==
    \/ \E p \in Procs : Invoke_GetValidatorManagerSignature(p) /\ UNCHANGED daemonVars
    \/ \E p \in Procs : StakeWise_GetValidatorManagerSignature(p) /\ UNCHANGED daemonVars
    \/ \E p \in Procs : runRequest(p) /\ UNCHANGED daemonVars
    \/ \E p \in Procs : NonceResponse(p) /\ UNCHANGED daemonVars
    \/ \E p \in Procs : LoginResponse(p) /\ UNCHANGED daemonVars
    \/ \E p \in Procs : runRequestRetry(p) /\ UNCHANGED daemonVars
    \/ \E p \in Procs : Return(p) /\ UNCHANGED daemonVars
    \/ ExpireSession /\ UNCHANGED daemonVars
    \/ RemoveWallet /\ UNCHANGED daemonVars

SpecSignature == InitLive /\ [][NextSignature]_vars

\* C37: StakeWise_GetValidatorManagerSignature called with lists of different
\* lengths returns the error of the validation; it has sent no request and run
\* no login, and the session token and the cached status are as on entry.
C37_LengthMismatchRejected ==
    \A p \in Procs :
        (op[p] = OpStakeWise_GetValidatorManagerSignature /\ pc[p] \notin {"idle", "wait"}
            /\ call[p].depositData # call[p].encryptedExitMessages) =>
            /\ pc[p] = "ret"
            /\ call[p].err = ErrLengthsDontMatch /\ call[p].ret = ""
            /\ Requests(call[p]) = 0 /\ call[p].loginRuns = 0
            /\ sessionToken = call[p].entryToken
            /\ nodeRegistrationStatus = call[p].entryStatus

C37_Witness ==
    \E p \in Procs :
        /\ AtRet(p, OpStakeWise_GetValidatorManagerSignature)
        /\ call[p].depositData = 2 /\ call[p].encryptedExitMessages = 1
        /\ call[p].err = ErrLengthsDontMatch /\ Requests(call[p]) = 0
        /\ call[p].entryToken.kind = "sess" /\ remoteSession = 0

\* ------------------------------------------------- readiness of the wallet
\* Every status wallet.GetStatus() can report
AllWalletStatuses ==
    {WalletStatus(a, l, d, s, m) : a \in BOOLEAN, l \in BOOLEAN, d \in BOOLEAN, s \in BOOLEAN, m \in BOOLEAN}

\* The daemon checks the wallet: serviceProvider.RequireWalletReady reads the
\* status, which may fail, and tests it
ServiceProvider_RequireWalletReady ==
    /\ \E getStatusOk \in BOOLEAN :
        ready' = [ready EXCEPT !.requireWalletReady =
            IF getStatusOk
            THEN [read |-> TRUE, status |-> wallet, err |-> RequireWalletReady(wallet)]
            ELSE [read |-> FALSE, status |-> WalletNone, err |-> ErrWalletStatus]]
    /\ UNCHANGED <<mgrVars, lock, wallet, remoteVars, pc, op, call, everRegistered, walletEverLoaded,
                   api, waiter, cfg, lastCall>>

\* A module checks the wallet: moduleServiceProvider.RequireWalletReady on the
\* status the daemon reported to it
ModuleServiceProvider_RequireWalletReady ==
    /\ ready' = [ready EXCEPT !.checkIfWalletReady =
            [read |-> TRUE, status |-> wallet, err |-> CheckIfWalletReady(wallet)]]
    /\ UNCHANGED <<mgrVars, lock, wallet, remoteVars, pc, op, call, everRegistered, walletEverLoaded,
                   api, waiter, cfg, lastCall>>

\* The wallet, the keystore, the password file or the node address change
WalletChanges ==
    /\ \E w \in AllWalletStatuses \ {wallet} : wallet' = w
    /\ UNCHANGED <<mgrVars, lock, remoteVars, pc, op, call, everRegistered, walletEverLoaded,
                   api, waiter, cfg, lastCall, ready>>

InitReady ==
    /\ Init
    /\ ready = NoChecks

NextReady ==
    \/ ServiceProvider_RequireWalletReady
    \/ ModuleServiceProvider_RequireWalletReady
    \/ WalletChanges

SpecReady == InitReady /\ [][NextReady]_vars

\* C38: on a wallet status, RequireWalletReady of the daemon returns nil exactly
\* when CheckIfWalletReady returns nil: when the status has an address, a loaded
\* wallet and a wallet address equal to the node address.
C38_SameReadiness ==
    LET d == ready.requireWalletReady
        m == ready.checkIfWalletReady
        Ready(status) == status.HasAddress /\ status.IsLoaded /\ status.AddrMatch IN
    /\ d.read => (d.err = Nil <=> Ready(d.status))
    /\ m.read => (m.err = Nil <=> Ready(m.status))
    /\ (d.read /\ m.read /\ d.status = m.status) => (d.err = Nil <=> m.err = Nil)

\* the same status, on which the two report different conditions
C38_Witness ==
    /\ ready.requireWalletReady.read /\ ready.checkIfWalletReady.read
    /\ ready.requireWalletReady.status = ready.checkIfWalletReady.status
    /\ ~ready.requireWalletReady.status.HasAddress /\ ~ready.requireWalletReady.status.IsLoaded
    /\ ready.requireWalletReady.err = ErrNoKeystore
    /\ ready.checkIfWalletReady.err = ErrNodeAddressNotSet

\* ------------------------------------------------------- HyperdriveConfig
\* Modules passed to Serialize, and networks passed to getNetworkOptions
MaxModules == 2
MaxNetworks == 3

\* shared.HyperdriveVersion
HyperdriveVersion == "1.2.0"

\* An IModuleConfig: what its GetModuleName() and its Serialize() return
IModuleConfigs == [name : ModuleNames, serialized : ModuleConfigs]

\* The second loop of Serialize: modulesMap after the modules passed have
\* been written to it, in their order
RECURSIVE Overwrite(_, _)
Overwrite(modulesMap, modules) ==
    IF modules = <<>> THEN modulesMap
    ELSE Overwrite([modulesMap EXCEPT ![Head(modules).name] = Head(modules).serialized],
                   Tail(modules))

\* Serialize that copies only the modules held that are not passed, and
\* leaves out the ones passed
Serialize_HeldOnly(c, modules, includeUserDir) ==
    [version |-> [exists |-> TRUE, isString |-> TRUE, value |-> "v" \o HyperdriveVersion],
     hyperdrive |-> [exists |-> TRUE, isMap |-> TRUE],
     hdUserDir |-> IF includeUserDir THEN [exists |-> TRUE, value |-> c.hyperdriveUserDirectory]
                   ELSE [exists |-> FALSE, value |-> ""],
     modules |-> [exists |-> TRUE, isMap |-> TRUE, map |-> c.Modules]]

\* HyperdriveConfig.Serialize: the master map, each entry with whether the
\* key exists and the type of its value
Serialize(c, modules, includeUserDir) ==
    [version |-> [exists |-> TRUE, isString |-> TRUE, value |-> "v" \o HyperdriveVersion],
     hyperdrive |-> [exists |-> TRUE, isMap |-> TRUE],
     hdUserDir |-> IF includeUserDir THEN [exists |-> TRUE, value |-> c.hyperdriveUserDirectory]
                   ELSE [exists |-> FALSE, value |-> ""],
     modules |-> [exists |-> TRUE, isMap |-> TRUE, map |-> Overwrite(c.Modules, modules)]]

\* The settings files Deserialize is given
MasterMaps ==
    [version : {[exists |-> FALSE, isString |-> FALSE, value |-> ""],
                [exists |-> TRUE, isString |-> FALSE, value |-> ""],
                [exists |-> TRUE, isString |-> TRUE, value |-> "v" \o HyperdriveVersion]},
     hyperdrive : {[exists |-> FALSE, isMap |-> FALSE], [exists |-> TRUE, isMap |-> FALSE],
                   [exists |-> TRUE, isMap |-> TRUE]},
     hdUserDir : {[exists |-> FALSE, value |-> ""], [exists |-> TRUE, value |-> "/data"]},
     modules : {[exists |-> FALSE, isMap |-> FALSE, map |-> EmptyModules],
                [exists |-> TRUE, isMap |-> FALSE, map |-> EmptyModules]}
               \cup {[exists |-> TRUE, isMap |-> TRUE, map |-> m] : m \in ModulesMaps}]

\* Errors of Deserialize
ErrUpdateConfig == "error upgrading configuration"
ErrMissingRoot == "config is missing the root section"
ErrRootNotMap == "root entry is not a map"
ErrDeserializeRoot == "error deserializing the root section"
ErrMissingVersion == "expected a version but it was not found"
ErrModulesNotMap == "modules entry is not a map"

\* HyperdriveConfig.Deserialize: the configuration after the call and the
\* error returned. updateOk: migration.UpdateConfig succeeds; deserializeOk: the
\* network entry is a string and config.Deserialize succeeds
Deserialize(c, masterMap, updateOk, deserializeOk) ==
    IF ~updateOk THEN [cfg |-> c, err |-> ErrUpdateConfig]
    ELSE IF ~masterMap.hyperdrive.exists THEN [cfg |-> c, err |-> ErrMissingRoot]
    ELSE IF ~masterMap.hyperdrive.isMap THEN [cfg |-> c, err |-> ErrRootNotMap]
    ELSE IF ~deserializeOk THEN [cfg |-> c, err |-> ErrDeserializeRoot]
    ELSE IF ~masterMap.version.exists THEN [cfg |-> c, err |-> ErrMissingVersion]
    ELSE IF ~masterMap.version.isString THEN [cfg |-> c, err |-> Panicked]
    ELSE
        LET c1 == [c EXCEPT !.Version = masterMap.version.value,
                            !.hyperdriveUserDirectory =
                                IF masterMap.hdUserDir.exists THEN masterMap.hdUserDir.value ELSE @] IN
        IF masterMap.modules.exists THEN
            IF masterMap.modules.isMap
            THEN [cfg |-> [c1 EXCEPT !.Modules = masterMap.modules.map], err |-> Nil]
            ELSE [cfg |-> c1, err |-> ErrModulesNotMap]
        ELSE [cfg |-> [c1 EXCEPT !.Modules = EmptyModules], err |-> Nil]

\* The keys of networks, in the order in which Go compares them as strings
Network_Mainnet == "mainnet"
Network_Hoodi == "hoodi"
NetworkKeys == <<"holesky", "hoodi", "local", "mainnet", "sepolia">>

\* first < second on keys
KeyLess(first, second) ==
    \E i, j \in 1 .. Len(NetworkKeys) : i < j /\ NetworkKeys[i] = first /\ NetworkKeys[j] = second

\* The settings of a network, as loaded from its file
HyperdriveSettings == [Key : {NetworkKeys[i] : i \in 1 .. Len(NetworkKeys)}, Name : {"A", "B"}]

\* The less function of getNetworkOptions that does not put Hoodi second
less_NoHoodi(firstOption, secondOption) ==
    IF firstOption.Value = Network_Mainnet THEN TRUE
    ELSE IF secondOption.Value = Network_Mainnet THEN FALSE
    ELSE KeyLess(firstOption.Value, secondOption.Value)

\* The less function getNetworkOptions passes to sort.SliceStable
less(firstOption, secondOption) ==
    IF firstOption.Value = Network_Mainnet THEN TRUE
    ELSE IF secondOption.Value = Network_Mainnet THEN FALSE
    ELSE IF firstOption.Value = Network_Hoodi THEN TRUE
    ELSE IF secondOption.Value = Network_Hoodi THEN FALSE
    ELSE KeyLess(firstOption.Value, secondOption.Value)

\* sort.SliceStable on fewer than 20 elements is an insertion sort: the inner
\* loop, which moves the element at j to the left while it is less than its
\* left neighbour
RECURSIVE MoveLeft(_, _)
MoveLeft(data, j) ==
    IF j > 1 /\ less(data[j], data[j - 1])
    THEN MoveLeft([data EXCEPT ![j] = data[j - 1], ![j - 1] = data[j]], j - 1)
    ELSE data

\* the outer loop, from element i on
RECURSIVE SliceStable(_, _)
SliceStable(data, i) ==
    IF i > Len(data) THEN data ELSE SliceStable(MoveLeft(data, i), i + 1)

\* getNetworkOptions: the option of each network, carrying its key as value,
\* then the sort
getNetworkOptions(networks) ==
    SliceStable([i \in 1 .. Len(networks) |-> [Name |-> networks[i].Name, Value |-> networks[i].Key]], 2)

\* Sequences of at most n elements of S
SeqUpTo(S, n) == UNION {[1 .. k -> S] : k \in 0 .. n}

\* cfg.Serialize(modules, includeUserDir) is called
Serialize_Call ==
    /\ lastCall.fn = None
    /\ \E modules \in SeqUpTo(IModuleConfigs, MaxModules), includeUserDir \in BOOLEAN :
        lastCall' = [fn |-> "Serialize",
                     args |-> [modules |-> modules, includeUserDir |-> includeUserDir],
                     before |-> cfg, ret |-> Serialize(cfg, modules, includeUserDir), err |-> Nil]
    /\ UNCHANGED <<mgrVars, lock, wallet, remoteVars, pc, op, call, everRegistered, walletEverLoaded,
                   api, waiter, cfg, ready>>

\* cfg.Deserialize(masterMap) is called
Deserialize_Call ==
    /\ lastCall.fn = None
    /\ \E masterMap \in MasterMaps, updateOk \in BOOLEAN, deserializeOk \in BOOLEAN :
        LET r == Deserialize(cfg, masterMap, updateOk, deserializeOk) IN
        /\ cfg' = r.cfg
        /\ lastCall' = [fn |-> "Deserialize", args |-> [masterMap |-> masterMap],
                        before |-> cfg, ret |-> None, err |-> r.err]
    /\ UNCHANGED <<mgrVars, lock, wallet, remoteVars, pc, op, call, everRegistered, walletEverLoaded,
                   api, waiter, ready>>

\* getNetworkOptions(networks) is called
getNetworkOptions_Call ==
    /\ lastCall.fn = None
    /\ \E networks \in SeqUpTo(HyperdriveSettings, MaxNetworks) :
        lastCall' = [fn |-> "getNetworkOptions", args |-> [networks |-> networks],
                     before |-> cfg, ret |-> getNetworkOptions(networks), err |-> Nil]
    /\ UNCHANGED <<mgrVars, lock, wallet, remoteVars, pc, op, call, everRegistered, walletEverLoaded,
                   api, waiter, cfg, ready>>

\* The caller has taken the result of the call
Returned ==
    /\ lastCall.fn # None
    /\ lastCall' = NoCall
    /\ UNCHANGED <<mgrVars, lock, wallet, remoteVars, pc, op, call, everRegistered, walletEverLoaded,
                   api, waiter, cfg, ready>>

NextConfig ==
    \/ Serialize_Call
    \/ Deserialize_Call
    \/ getNetworkOptions_Call
    \/ Returned

SpecConfig == Init /\ [][NextConfig]_vars

\* C39: Serialize emits, for each module name, the serialization of the last
\* module passed with that name, and the entry held on the configuration when
\* none is passed, and leaves the configuration as it is; a Deserialize that
\* returns no error has set Modules to the map of the settings, or to an empty
\* map when the settings have no modules section; Deserialize returns an error
\* when the root section or the version entry is missing.
C39_SerializeDeserializeModules ==
    /\ lastCall.fn = "Serialize" =>
        LET modules == lastCall.args.modules
            out == lastCall.ret.modules IN
        /\ out.exists /\ out.isMap /\ cfg = lastCall.before
        /\ \A n \in ModuleNames :
            LET passed == {i \in 1 .. Len(modules) : modules[i].name = n} IN
            IF passed = {} THEN out.map[n] = lastCall.before.Modules[n]
            ELSE \E i \in passed :
                    /\ \A j \in passed : j <= i
                    /\ out.map[n] = modules[i].serialized
    /\ lastCall.fn = "Deserialize" =>
        LET masterMap == lastCall.args.masterMap IN
        /\ (lastCall.err = Nil /\ masterMap.modules.exists) => cfg.Modules = masterMap.modules.map
        /\ (lastCall.err = Nil /\ ~masterMap.modules.exists) => cfg.Modules = EmptyModules
        /\ (~masterMap.hyperdrive.exists \/ ~masterMap.version.exists) =>
            (lastCall.err # Nil /\ cfg.Modules = lastCall.before.Modules)

\* a module held is replaced by the one passed, the other one held is emitted
C39_Witness ==
    /\ lastCall.fn = "Serialize"
    /\ lastCall.before.Modules["stakewise"] = "settings a"
    /\ lastCall.before.Modules["constellation"] = "settings a"
    /\ lastCall.args.modules = <<[name |-> "stakewise", serialized |-> "settings b"]>>
    /\ lastCall.ret.modules.map["stakewise"] = "settings b"
    /\ lastCall.ret.modules.map["constellation"] = "settings a"

\* C40: getNetworkOptions returns one option for each network passed; in
\* their order the options of Mainnet come first, then those of Hoodi, then
\* the others ascending by key.
C40_NetworkOptionsOrder ==
    lastCall.fn = "getNetworkOptions" =>
        LET networks == lastCall.args.networks
            options == lastCall.ret IN
        /\ Len(options) = Len(networks)
        /\ \A s \in HyperdriveSettings :
            Cardinality({i \in 1 .. Len(networks) : networks[i] = s})
                = Cardinality({i \in 1 .. Len(options) :
                                 options[i] = [Name |-> s.Name, Value |-> s.Key]})
        /\ \A i, j \in 1 .. Len(options) :
            i < j =>
                /\ options[j].Value = Network_Mainnet => options[i].Value = Network_Mainnet
                /\ options[j].Value = Network_Hoodi =>
                    options[i].Value \in {Network_Mainnet, Network_Hoodi}
                /\ \/ ~KeyLess(options[j].Value, options[i].Value)
                   \/ options[i].Value \in {Network_Mainnet, Network_Hoodi}

C40_Witness ==
    /\ lastCall.fn = "getNetworkOptions"
    /\ lastCall.args.networks =
        <<[Key |-> "holesky", Name |-> "A"], [Key |-> "hoodi", Name |-> "A"], [Key |-> "mainnet", Name |-> "A"]>>
    /\ lastCall.ret =
        <<[Name |-> "A", Value |-> "mainnet"], [Name |-> "A", Value |-> "hoodi"], [Name |-> "A", Value |-> "holesky"]>>

====
